---- MODULE Spec2Model ----
(***************************************************************************)
(* A model of the linug-chess move generator (src/src/lib.rs).             *)
(*                                                                         *)
(* A u64 bitboard is modelled as the set of the indices of its set bits,   *)
(* a subset of 0..63: bit k of the word is square k of SQUARE_NAME.  The   *)
(* bitwise operators of the source become set operators, and a shift       *)
(* becomes a translation of the indices that drops the bits shifted out    *)
(* of the word.                                                            *)
(***************************************************************************)
EXTENDS Integers, Sequences, FiniteSets, TLC

Squares == 0..63

\* u64 shifts: bits shifted beyond bit 63 or below bit 0 are lost.
Shl(b, k) == {s + k : s \in {x \in b : x + k <= 63}}
Shr(b, k) == {s - k : s \in {x \in b : x >= k}}
Xor(a, b) == (a \ b) \cup (b \ a)
\* u64::trailing_zeros: the index of the lowest set bit, 64 for the zero word.
trailing_zeros(b) == IF b = {} THEN 64 ELSE CHOOSE s \in b : \A t \in b : s <= t

PIECES == <<"Pawn", "Knight", "Bishop", "Rook", "Queen", "King">>
PROMOTIONS == <<"Queen", "Rook", "Knight", "Bishop">>
PieceKinds == {"King", "Queen", "Bishop", "Knight", "Rook", "Pawn"}

SQUARE_NAME ==
  << "h1", "g1", "f1", "e1", "d1", "c1", "b1", "a1",
     "h2", "g2", "f2", "e2", "d2", "c2", "b2", "a2",
     "h3", "g3", "f3", "e3", "d3", "c3", "b3", "a3",
     "h4", "g4", "f4", "e4", "d4", "c4", "b4", "a4",
     "h5", "g5", "f5", "e5", "d5", "c5", "b5", "a5",
     "h6", "g6", "f6", "e6", "d6", "c6", "b6", "a6",
     "h7", "g7", "f7", "e7", "d7", "c7", "b7", "a7",
     "h8", "g8", "f8", "e8", "d8", "c8", "b8", "a8" >>

\* FILE[0] is the a file (bits 7, 15, ...), FILE[7] the h file; RANK[0] is rank 1.
FILE == [f \in 0..7 |-> {s \in Squares : s % 8 = 7 - f}]
RANK == [r \in 0..7 |-> {s \in Squares : s \div 8 = r}]

NOT_ON_H_FILE == {s \in Squares : s % 8 # 0}
NOT_ON_A_FILE == {s \in Squares : s % 8 # 7}
NOT_ON_GH_FILE == {s \in Squares : s % 8 \notin {0, 1}}
NOT_ON_AB_FILE == {s \in Squares : s % 8 \notin {6, 7}}

w_pawn_forward_mask(b) == Shl(b, 8)
\* A faulty variant: the double push taken from rank 3 instead of rank 2.
w_pawn_doubleforward_mask_rank3(b) == Shl(b \cap RANK[2], 16)
w_pawn_doubleforward_mask(b) == Shl(b \cap RANK[1], 16)
w_pawn_capture_mask(b) == Shl(b \cap NOT_ON_H_FILE, 7) \cup Shl(b \cap NOT_ON_A_FILE, 9)
b_pawn_forward_mask(b) == Shr(b, 8)
\* A faulty variant: the double push taken from rank 6 instead of rank 7.
b_pawn_doubleforward_mask_rank6(b) == Shr(b \cap RANK[5], 16)
b_pawn_doubleforward_mask(b) == Shr(b \cap RANK[6], 16)
b_pawn_capture_mask(b) == Shr(b \cap NOT_ON_H_FILE, 9) \cup Shr(b \cap NOT_ON_A_FILE, 7)

king_mask(b) ==
  Shl(b \cap NOT_ON_H_FILE, 7) \cup Shr(b \cap NOT_ON_H_FILE, 1) \cup Shr(b \cap NOT_ON_H_FILE, 9)
  \cup Shl(b, 8) \cup Shr(b, 8)
  \cup Shl(b \cap NOT_ON_A_FILE, 9) \cup Shl(b \cap NOT_ON_A_FILE, 1) \cup Shr(b \cap NOT_ON_A_FILE, 7)

\* A faulty variant: the jumps toward the a file are not clipped.
knight_mask_wraps(b) ==
  Shl(b, 17) \cup Shr(b, 15)
  \cup Shl(b \cap NOT_ON_H_FILE, 15) \cup Shr(b \cap NOT_ON_H_FILE, 17)
  \cup Shl(b, 10) \cup Shr(b, 6)
  \cup Shl(b \cap NOT_ON_GH_FILE, 6) \cup Shr(b \cap NOT_ON_GH_FILE, 10)

knight_mask(b) ==
  Shl(b \cap NOT_ON_A_FILE, 17) \cup Shr(b \cap NOT_ON_A_FILE, 15)
  \cup Shl(b \cap NOT_ON_H_FILE, 15) \cup Shr(b \cap NOT_ON_H_FILE, 17)
  \cup Shl(b \cap NOT_ON_AB_FILE, 10) \cup Shr(b \cap NOT_ON_AB_FILE, 6)
  \cup Shl(b \cap NOT_ON_GH_FILE, 6) \cup Shr(b \cap NOT_ON_GH_FILE, 10)

\* The lazy_static tables, indexed by square.
W_PAWN_FORWARD_MASK == [square \in Squares |-> w_pawn_forward_mask({square})]
W_PAWN_DOUBLEFORWARD_MASK == [square \in Squares |-> w_pawn_doubleforward_mask({square})]
W_PAWN_CAPTURE_MASK == [square \in Squares |-> w_pawn_capture_mask({square})]
B_PAWN_FORWARD_MASK == [square \in Squares |-> b_pawn_forward_mask({square})]
B_PAWN_DOUBLEFORWARD_MASK == [square \in Squares |-> b_pawn_doubleforward_mask({square})]
B_PAWN_CAPTURE_MASK == [square \in Squares |-> b_pawn_capture_mask({square})]
KING_MASK == [square \in Squares |-> king_mask({square})]
KNIGHT_MASK == [square \in Squares |-> knight_mask({square})]

\* One ray of rook_mask / bishop_mask.  ptr, a word with a single bit, is kept
\* as the index of that bit; k > 0 is ptr <<= k and k < 0 is ptr >>= -k (the
\* edge test stops the walk before a shift could lose the bit).  While ptr is
\* not on the edge: step, add the square, stop after a square of blocker_board.
RECURSIVE ray_walk(_, _, _, _)
ray_walk(ptr, edge, k, blocker_board) ==
  IF ptr \in edge THEN {}
  ELSE IF (ptr + k) \in blocker_board THEN {ptr + k}
  ELSE {ptr + k} \cup ray_walk(ptr + k, edge, k, blocker_board)

rook_mask(bitboard_square, blocker_board) ==
  LET ptr == trailing_zeros(bitboard_square)
  IN ray_walk(ptr, RANK[7], 8, blocker_board)
     \cup ray_walk(ptr, RANK[0], -8, blocker_board)
     \cup ray_walk(ptr, FILE[0], 1, blocker_board)
     \cup ray_walk(ptr, FILE[7], -1, blocker_board)

rook_all_blockers_mask(square) ==
  LET file == 7 - (square % 8)
      rank == square \div 8
      not_on_ah == Squares \ (FILE[0] \cup FILE[7])
      not_on_18 == Squares \ (RANK[0] \cup RANK[7])
  IN Xor(FILE[file] \cap not_on_18, RANK[rank] \cap not_on_ah) \ {square}

bishop_mask(bitboard_square, blocker_board) ==
  LET ptr == trailing_zeros(bitboard_square)
  IN ray_walk(ptr, RANK[7] \cup FILE[7], 7, blocker_board)
     \cup ray_walk(ptr, RANK[0] \cup FILE[7], -9, blocker_board)
     \cup ray_walk(ptr, RANK[7] \cup FILE[0], 9, blocker_board)
     \cup ray_walk(ptr, RANK[0] \cup FILE[0], -7, blocker_board)

bishop_all_blockers_mask(square) ==
  LET bitboard_edges == FILE[0] \cup FILE[7] \cup RANK[0] \cup RANK[7]
  IN bishop_mask({square}, {}) \ bitboard_edges

ROOK_BLOCKER_MASK == [square \in Squares |-> rook_all_blockers_mask(square)]
BISHOP_BLOCKER_MASK == [square \in Squares |-> bishop_all_blockers_mask(square)]

\* The magic tables.  check_if_magic accepts a candidate only when, for every
\* subset B of the square's blocker mask, the slot (B * magic) >> shift holds
\* rook_mask(square, B) (bishop_mask for a bishop): a slot is filled with the
\* ray-walked mask of the first subset that hashes to it, and any later subset
\* with another mask rejects the candidate.  The lookup of an accepted table at
\* the index of a masked blocker board is therefore that ray-walked mask.
rook_magic_lookup(square, rook_blocker_board) ==
  rook_mask({square}, rook_blocker_board)

bishop_magic_lookup(square, bishop_blocker_board) ==
  bishop_mask({square}, bishop_blocker_board)

\* The attack queries as the generator and the attack tests write them.
rook_attacks(square, blocker_board) ==
  rook_magic_lookup(square, blocker_board \cap ROOK_BLOCKER_MASK[square])

bishop_attacks(square, blocker_board) ==
  bishop_magic_lookup(square, blocker_board \cap BISHOP_BLOCKER_MASK[square])

----------------------------------------------------------------------------
\* The magic search and the runtime query, with the arithmetic of the code.

ROOK_MAGIC_SHIFT ==
  << 52, 53, 53, 53, 53, 53, 53, 52,
     53, 54, 54, 54, 54, 54, 54, 53,
     53, 54, 54, 54, 54, 54, 54, 53,
     53, 54, 54, 54, 54, 54, 54, 53,
     53, 54, 54, 54, 54, 54, 54, 53,
     53, 54, 54, 54, 54, 54, 54, 53,
     53, 54, 54, 54, 54, 54, 54, 53,
     52, 53, 53, 53, 53, 53, 53, 52 >>

BISHOP_MAGIC_SHIFT ==
  << 58, 59, 59, 59, 59, 59, 59, 58,
     59, 59, 59, 59, 59, 59, 59, 59,
     59, 59, 57, 57, 57, 57, 59, 59,
     59, 59, 57, 55, 55, 57, 59, 59,
     59, 59, 57, 55, 55, 57, 59, 59,
     59, 59, 57, 57, 57, 57, 59, 59,
     59, 59, 59, 59, 59, 59, 59, 59,
     58, 59, 59, 59, 59, 59, 59, 58 >>

magic_shift(piece, square) ==
  IF piece = "Rook" THEN ROOK_MAGIC_SHIFT[square + 1] ELSE BISHOP_MAGIC_SHIFT[square + 1]

all_blockers_set(piece, square) ==
  IF piece = "Rook" THEN rook_all_blockers_mask(square) ELSE bishop_all_blockers_mask(square)

move_mask(piece, square, blocker_subset) ==
  IF piece = "Rook" THEN rook_mask({square}, blocker_subset)
  ELSE bishop_mask({square}, blocker_subset)

\* A u64 is a set of bit indices; its multiplication is done on its eight
\* bytes, lowest first.
u64_byte(b, i) ==
  (IF (8 * i) \in b THEN 1 ELSE 0) + (IF (8 * i + 1) \in b THEN 2 ELSE 0)
  + (IF (8 * i + 2) \in b THEN 4 ELSE 0) + (IF (8 * i + 3) \in b THEN 8 ELSE 0)
  + (IF (8 * i + 4) \in b THEN 16 ELSE 0) + (IF (8 * i + 5) \in b THEN 32 ELSE 0)
  + (IF (8 * i + 6) \in b THEN 64 ELSE 0) + (IF (8 * i + 7) \in b THEN 128 ELSE 0)

u64_bytes(b) ==
  << u64_byte(b, 0), u64_byte(b, 1), u64_byte(b, 2), u64_byte(b, 3),
     u64_byte(b, 4), u64_byte(b, 5), u64_byte(b, 6), u64_byte(b, 7) >>

\* Column n of the product of two byte sequences: the sum of x[i] * y[n - i].
RECURSIVE column(_, _, _, _)
column(x, y, n, i) ==
  IF i > n THEN 0 ELSE x[i + 1] * y[n - i + 1] + column(x, y, n, i + 1)

\* Column n with the carry of the columns below it.
RECURSIVE carried(_, _, _)
carried(x, y, n) ==
  column(x, y, n, 0) + (IF n = 0 THEN 0 ELSE carried(x, y, n - 1) \div 256)

\* blocker_subset.wrapping_mul(magic) >> shift, for a shift of 48 or more:
\* the columns from 8 up fall off the 64 bits, and the two top bytes of what
\* is left are shifted down.
magic_index(blocker_subset, magic, shift) ==
  CHOOSE index \in
    { (((carried(x, y, 7) % 256) * 256) + (carried(x, y, 6) % 256)) \div (2 ^ (shift - 48)) :
        x \in { u64_bytes(blocker_subset) }, y \in { u64_bytes(magic) } } : TRUE

\* check_if_magic: every subset of the blocker mask is visited once (the
\* Carry-Rippler loop); a slot that is 0 takes the subset's move mask, a slot
\* that holds the same mask is a good collision, a slot that holds another
\* mask refuses the candidate.  hits pairs each place with a mask that lands
\* on it, so a candidate is refused when two hits share a place.  The Option
\* is a sequence: None is << >> and Some(lookup) is << lookup >>.
magic_hits(piece, square, magic_candidate) ==
  { << magic_index(blocker_subset, magic_candidate, magic_shift(piece, square)),
       move_mask(piece, square, blocker_subset) >> :
    blocker_subset \in SUBSET all_blockers_set(piece, square) }

\* A faulty variant: a bad collision does not refuse the candidate, the slot
\* keeps one of the masks that landed on it.
check_if_magic_keeps_collisions(piece, square, magic_candidate) ==
  LET len == 2 ^ (64 - magic_shift(piece, square))
      Some(filled) ==
        << [i \in 0..(len - 1) |->
              IF \E h \in filled : h[1] = i
              THEN (CHOOSE h \in filled : h[1] = i)[2] ELSE {}] >>
  IN CHOOSE result \in
       { Some(filled) :
           filled \in { { h \in magic_hits(piece, square, magic_candidate) : h[2] # {} } } } :
       TRUE

check_if_magic(piece, square, magic_candidate) ==
  LET len == 2 ^ (64 - magic_shift(piece, square))
      Some(filled) ==
        IF Cardinality({ h[1] : h \in filled }) # Cardinality(filled) THEN << >>
        ELSE << [i \in 0..(len - 1) |->
                   IF \E h \in filled : h[1] = i
                   THEN (CHOOSE h \in filled : h[1] = i)[2] ELSE {}] >>
  IN CHOOSE result \in
       { Some(filled) :
           filled \in { { h \in magic_hits(piece, square, magic_candidate) : h[2] # {} } } } :
       TRUE

\* The query of the move generators and attack tests: the blockers of the
\* board that lie in the square's mask, times the magic number, shifted, is
\* the place in the lookup.
\* A faulty variant: the board is not cut down to the square's blocker mask.
magic_query_index_unmasked(piece, square, magic_number, blocker_board) ==
  magic_index(blocker_board, magic_number, magic_shift(piece, square))

magic_query_index(piece, square, magic_number, blocker_board) ==
  magic_index(blocker_board \cap all_blockers_set(piece, square), magic_number,
              magic_shift(piece, square))

magic_query(piece, square, magic_number, magic_lookup, blocker_board) ==
  magic_lookup[magic_query_index(piece, square, magic_number, blocker_board)]

\* The sliders and squares whose search is looked into, and for each the
\* numbers the random generator hands to find_magic.
Sliders == { << "Rook", 27 >>, << "Bishop", 0 >>, << "Bishop", 27 >> }

Candidates(piece, square) ==
  CASE piece = "Rook" /\ square = 27 ->
         { {1, 6, 11, 15, 20, 33, 41, 45, 50, 56, 58, 59, 61},
           {7, 20, 31, 34, 43},
           {4, 10, 17, 23, 25, 40, 42} }
    [] piece = "Bishop" /\ square = 0 ->
         { {2, 7, 8, 14, 27, 33, 35, 40, 42, 43, 46, 53, 57},
           {4, 15, 19, 20, 26, 34, 35, 45, 50, 55, 57, 59},
           {1, 4, 5, 28, 40, 45, 57} }
    [] piece = "Bishop" /\ square = 27 ->
         { {5, 13, 21, 24, 33, 43, 51, 56, 62},
           {6, 17, 23, 43, 46, 54, 58},
           {3, 8, 11, 14, 15, 17, 25, 26, 36, 42, 46, 60} }

----------------------------------------------------------------------------
\* Position and Move

Move(from, destination, piece, promotion) ==
  [from |-> from, destination |-> destination, piece |-> piece, promotion |-> promotion]

empty ==
  [w_board |-> [p \in PieceKinds |-> {}], b_board |-> [p \in PieceKinds |-> {}],
   w_all |-> {}, b_all |-> {}, w_turn |-> TRUE,
   en_passent_target_square |-> {}, legal_moves |-> <<>>]

RECURSIVE first_piece(_, _, _)
first_piece(board, bitboard_square, i) ==
  IF i > Len(PIECES) THEN "Void"
  ELSE IF bitboard_square \subseteq board[PIECES[i]] THEN PIECES[i]
  ELSE first_piece(board, bitboard_square, i + 1)

get_w_piece(pos, bitboard_square) == first_piece(pos.w_board, bitboard_square, 1)
get_b_piece(pos, bitboard_square) == first_piece(pos.b_board, bitboard_square, 1)

\* A faulty variant: the test for the other king standing next to the square is missing.
square_attacked_by_black_no_king(position, blocker_board, square) ==
  \/ W_PAWN_CAPTURE_MASK[square] \cap position.b_board["Pawn"] # {}
  \/ KNIGHT_MASK[square] \cap position.b_board["Knight"] # {}
  \/ bishop_attacks(square, blocker_board)
       \cap (position.b_board["Bishop"] \cup position.b_board["Queen"]) # {}
  \/ rook_attacks(square, blocker_board)
       \cap (position.b_board["Rook"] \cup position.b_board["Queen"]) # {}

square_attacked_by_black(position, blocker_board, square) ==
  \/ W_PAWN_CAPTURE_MASK[square] \cap position.b_board["Pawn"] # {}
  \/ KING_MASK[square] \cap position.b_board["King"] # {}
  \/ KNIGHT_MASK[square] \cap position.b_board["Knight"] # {}
  \/ bishop_attacks(square, blocker_board)
       \cap (position.b_board["Bishop"] \cup position.b_board["Queen"]) # {}
  \/ rook_attacks(square, blocker_board)
       \cap (position.b_board["Rook"] \cup position.b_board["Queen"]) # {}

square_attacked_by_white(position, blocker_board, square) ==
  \/ B_PAWN_CAPTURE_MASK[square] \cap position.w_board["Pawn"] # {}
  \/ KING_MASK[square] \cap position.w_board["King"] # {}
  \/ KNIGHT_MASK[square] \cap position.w_board["Knight"] # {}
  \/ bishop_attacks(square, blocker_board)
       \cap (position.w_board["Bishop"] \cup position.w_board["Queen"]) # {}
  \/ rook_attacks(square, blocker_board)
       \cap (position.w_board["Rook"] \cup position.w_board["Queen"]) # {}

\* add_moves: one record per bit of the target board, lowest bit first; a pawn
\* reaching rank 1 or 8 gives one record per promotion kind.
RECURSIVE add_moves(_, _, _)
add_moves(bitboard, from, piece) ==
  IF bitboard = {} THEN <<>>
  ELSE LET last_bit == {trailing_zeros(bitboard)}
           rest == bitboard \ last_bit
       IN (IF piece = "Pawn" /\ last_bit \cap (RANK[0] \cup RANK[7]) # {}
           THEN [i \in 1..Len(PROMOTIONS) |-> Move(from, last_bit, piece, PROMOTIONS[i])]
           ELSE << Move(from, last_bit, piece, "Void") >>)
          \o add_moves(rest, from, piece)

\* A faulty variant: the double push looks at its landing square only.
add_w_pawn_moves_jumps(pos, square, blocker_board, bitboard_square) ==
  add_moves((W_PAWN_FORWARD_MASK[square] \ blocker_board)
            \cup (W_PAWN_DOUBLEFORWARD_MASK[square] \ blocker_board)
            \cup (W_PAWN_CAPTURE_MASK[square] \cap (pos.b_all \cup pos.en_passent_target_square)),
            bitboard_square, "Pawn")

add_w_pawn_moves(pos, square, blocker_board, bitboard_square) ==
  add_moves((W_PAWN_FORWARD_MASK[square] \ blocker_board)
            \cup (W_PAWN_DOUBLEFORWARD_MASK[square] \ (blocker_board \cup Shl(blocker_board, 8)))
            \cup (W_PAWN_CAPTURE_MASK[square] \cap (pos.b_all \cup pos.en_passent_target_square)),
            bitboard_square, "Pawn")

add_w_king_moves(pos, square, bitboard_square) ==
  add_moves(KING_MASK[square] \ pos.w_all, bitboard_square, "King")

add_w_knight_moves(pos, square, bitboard_square) ==
  add_moves(KNIGHT_MASK[square] \ pos.w_all, bitboard_square, "Knight")

add_w_bishop_moves(pos, square, blocker_board, bitboard_square) ==
  add_moves(bishop_attacks(square, blocker_board) \ pos.w_all, bitboard_square, "Bishop")

add_w_rook_moves(pos, square, blocker_board, bitboard_square) ==
  add_moves(rook_attacks(square, blocker_board) \ pos.w_all, bitboard_square, "Rook")

add_w_queen_moves(pos, square, blocker_board, bitboard_square) ==
  add_moves((rook_attacks(square, blocker_board) \ pos.w_all)
            \cup (bishop_attacks(square, blocker_board) \ pos.w_all),
            bitboard_square, "Queen")

add_b_pawn_moves(pos, square, blocker_board, bitboard_square) ==
  add_moves((B_PAWN_FORWARD_MASK[square] \ blocker_board)
            \cup (B_PAWN_DOUBLEFORWARD_MASK[square] \ (blocker_board \cup Shr(blocker_board, 8)))
            \cup (B_PAWN_CAPTURE_MASK[square] \cap (pos.w_all \cup pos.en_passent_target_square)),
            bitboard_square, "Pawn")

add_b_king_moves(pos, square, bitboard_square) ==
  add_moves(KING_MASK[square] \ pos.b_all, bitboard_square, "King")

add_b_knight_moves(pos, square, bitboard_square) ==
  add_moves(KNIGHT_MASK[square] \ pos.b_all, bitboard_square, "Knight")

add_b_bishop_moves(pos, square, blocker_board, bitboard_square) ==
  add_moves(bishop_attacks(square, blocker_board) \ pos.b_all, bitboard_square, "Bishop")

add_b_rook_moves(pos, square, blocker_board, bitboard_square) ==
  add_moves(rook_attacks(square, blocker_board) \ pos.b_all, bitboard_square, "Rook")

add_b_queen_moves(pos, square, blocker_board, bitboard_square) ==
  add_moves((rook_attacks(square, blocker_board) \ pos.b_all)
            \cup (bishop_attacks(square, blocker_board) \ pos.b_all),
            bitboard_square, "Queen")

\* The loop that clears a captured piece: for piece in PIECES, the
\* destination bit is cleared in that piece's board.  A faulty variant first: the loop
\* missing the pawn board.
clear_square_not_pawns(board, destination) ==
  [p \in PieceKinds |-> IF p = "Pawn" THEN board[p] ELSE board[p] \ destination]

clear_square(board, destination) ==
  [p \in PieceKinds |-> board[p] \ destination]

\* The tentative application of the king-safety filters (on a clone).
\* A faulty variant: the king's square is not updated when the king itself moves.
w_king_capture_filter_stale_king(pos, m, king_pos) ==
  LET moved == [pos EXCEPT !.w_board[m.piece] = Xor(@, m.from \cup m.destination),
                           !.w_all = Xor(@, m.from \cup m.destination)]
      captured == IF moved.b_all \cap m.destination # {}
                  THEN [moved EXCEPT !.b_all = @ \ m.destination,
                                     !.b_board = clear_square(moved.b_board, m.destination)]
                  ELSE moved
      pos_clone == IF m.piece = "Pawn" /\ m.destination = captured.en_passent_target_square
                   THEN [captured EXCEPT !.b_all = @ \ Shr(m.destination, 8),
                                         !.b_board["Pawn"] = @ \ Shr(m.destination, 8)]
                   ELSE captured
      king_pos_copy == king_pos
      blocker_board == pos_clone.w_all \cup pos_clone.b_all
  IN ~square_attacked_by_black(pos_clone, blocker_board, king_pos_copy)

w_king_capture_filter(pos, m, king_pos) ==
  LET moved == [pos EXCEPT !.w_board[m.piece] = Xor(@, m.from \cup m.destination),
                           !.w_all = Xor(@, m.from \cup m.destination)]
      captured == IF moved.b_all \cap m.destination # {}
                  THEN [moved EXCEPT !.b_all = @ \ m.destination,
                                     !.b_board = clear_square(moved.b_board, m.destination)]
                  ELSE moved
      pos_clone == IF m.piece = "Pawn" /\ m.destination = captured.en_passent_target_square
                   THEN [captured EXCEPT !.b_all = @ \ Shr(m.destination, 8),
                                         !.b_board["Pawn"] = @ \ Shr(m.destination, 8)]
                   ELSE captured
      king_pos_copy == IF m.piece = "King" THEN trailing_zeros(m.destination) ELSE king_pos
      blocker_board == pos_clone.w_all \cup pos_clone.b_all
  IN ~square_attacked_by_black(pos_clone, blocker_board, king_pos_copy)

\* A faulty variant: the pawn taken en passant is left on the cloned board.
b_king_capture_filter_no_en_passant(pos, m, king_pos) ==
  LET moved == [pos EXCEPT !.b_board[m.piece] = Xor(@, m.from \cup m.destination),
                           !.b_all = Xor(@, m.from \cup m.destination)]
      captured == IF moved.w_all \cap m.destination # {}
                  THEN [moved EXCEPT !.w_all = @ \ m.destination,
                                     !.w_board = clear_square(moved.w_board, m.destination)]
                  ELSE moved
      pos_clone == captured
      king_pos_copy == IF m.piece = "King" THEN trailing_zeros(m.destination) ELSE king_pos
      blocker_board == pos_clone.w_all \cup pos_clone.b_all
  IN ~square_attacked_by_white(pos_clone, blocker_board, king_pos_copy)

b_king_capture_filter(pos, m, king_pos) ==
  LET moved == [pos EXCEPT !.b_board[m.piece] = Xor(@, m.from \cup m.destination),
                           !.b_all = Xor(@, m.from \cup m.destination)]
      captured == IF moved.w_all \cap m.destination # {}
                  THEN [moved EXCEPT !.w_all = @ \ m.destination,
                                     !.w_board = clear_square(moved.w_board, m.destination)]
                  ELSE moved
      pos_clone == IF m.piece = "Pawn" /\ m.destination = captured.en_passent_target_square
                   THEN [captured EXCEPT !.w_all = @ \ Shl(m.destination, 8),
                                         !.w_board["Pawn"] = @ \ Shl(m.destination, 8)]
                   ELSE captured
      king_pos_copy == IF m.piece = "King" THEN trailing_zeros(m.destination) ELSE king_pos
      blocker_board == pos_clone.w_all \cup pos_clone.b_all
  IN ~square_attacked_by_white(pos_clone, blocker_board, king_pos_copy)

\* The moves the square loop of calculate_legal_moves adds for one square.
square_moves(pos, square, blocker_board) ==
  LET bitboard_square == {square}
  IN IF pos.w_turn
     THEN LET piece == get_w_piece(pos, bitboard_square)
          IN CASE piece = "Queen" -> add_w_queen_moves(pos, square, blocker_board, bitboard_square)
               [] piece = "Rook" -> add_w_rook_moves(pos, square, blocker_board, bitboard_square)
               [] piece = "Bishop" -> add_w_bishop_moves(pos, square, blocker_board, bitboard_square)
               [] piece = "Knight" -> add_w_knight_moves(pos, square, bitboard_square)
               [] piece = "Pawn" -> add_w_pawn_moves(pos, square, blocker_board, bitboard_square)
               [] piece = "King" -> add_w_king_moves(pos, square, bitboard_square)
               [] OTHER -> <<>>
     ELSE LET piece == get_b_piece(pos, bitboard_square)
          IN CASE piece = "Queen" -> add_b_queen_moves(pos, square, blocker_board, bitboard_square)
               [] piece = "Rook" -> add_b_rook_moves(pos, square, blocker_board, bitboard_square)
               [] piece = "Bishop" -> add_b_bishop_moves(pos, square, blocker_board, bitboard_square)
               [] piece = "Knight" -> add_b_knight_moves(pos, square, bitboard_square)
               [] piece = "Pawn" -> add_b_pawn_moves(pos, square, blocker_board, bitboard_square)
               [] piece = "King" -> add_b_king_moves(pos, square, bitboard_square)
               [] OTHER -> <<>>

RECURSIVE concat_all(_, _)
concat_all(seqs, i) ==
  IF i > Len(seqs) THEN <<>> ELSE seqs[i] \o concat_all(seqs, i + 1)

pseudo_moves(pos, square0, blocker_board) ==
  concat_all([i \in 1..64 |-> square_moves(pos, i - 1, blocker_board)], 1)

\* king_pos of calculate_legal_moves: 0, overwritten at every square of the
\* loop that holds a king of the side to move (the highest such square wins).
loop_king_pos(pos) ==
  LET kings == {square \in Squares :
                  IF pos.w_turn THEN get_w_piece(pos, {square}) = "King"
                  ELSE get_b_piece(pos, {square}) = "King"}
  IN IF kings = {} THEN 0 ELSE CHOOSE k \in kings : \A j \in kings : j <= k

calculate_legal_moves(pos) ==
  LET blocker_board == pos.w_all \cup pos.b_all
      king_pos == loop_king_pos(pos)
      moves == pseudo_moves(pos, 0, blocker_board)
  IN [pos EXCEPT !.legal_moves =
        IF pos.w_turn
        THEN SelectSeq(moves, LAMBDA m : w_king_capture_filter(pos, m, king_pos))
        ELSE SelectSeq(moves, LAMBDA m : b_king_capture_filter(pos, m, king_pos))]

\* A faulty variant: the en-passant target is not reset before the double-push test.
make_w_move_keeps_target(pos, m) ==
  LET moved == [pos EXCEPT !.w_board[m.piece] = Xor(@, m.from \cup m.destination),
                           !.w_all = Xor(@, m.from \cup m.destination)]
      captured == IF moved.b_all \cap m.destination # {}
                  THEN [moved EXCEPT !.b_all = @ \ m.destination,
                                     !.b_board = clear_square(moved.b_board, m.destination)]
                  ELSE moved
      special ==
        IF m.promotion # "Void"
        THEN LET cleared == [captured EXCEPT !.w_board[m.piece] = @ \ m.destination]
             IN [cleared EXCEPT !.w_board[m.promotion] = @ \cup m.destination]
        ELSE IF m.piece = "King" /\ Shr(m.from, 2) = m.destination
        THEN [captured EXCEPT
                !.w_board["Rook"] = Xor(@, Shr(m.destination, 1) \cup Shl(m.destination, 1)),
                !.w_all = Xor(@, Shr(m.destination, 1) \cup Shl(m.destination, 1))]
        ELSE IF m.piece = "King" /\ Shl(m.from, 2) = m.destination
        THEN [captured EXCEPT
                !.w_board["Rook"] = Xor(@, Shr(m.destination, 1) \cup Shl(m.destination, 2)),
                !.w_all = Xor(@, Shr(m.destination, 1) \cup Shl(m.destination, 2))]
        ELSE IF m.piece = "Pawn" /\ m.destination = captured.en_passent_target_square
        THEN [captured EXCEPT !.b_all = @ \ Shr(m.destination, 8),
                              !.b_board["Pawn"] = @ \ Shr(m.destination, 8)]
        ELSE captured
      target == IF m.piece = "Pawn" /\ Shl(m.from, 16) = m.destination
                THEN Shl(m.from, 8) ELSE pos.en_passent_target_square
  IN calculate_legal_moves(
       [special EXCEPT !.en_passent_target_square = target,
                       !.w_turn = FALSE,
                       !.legal_moves = <<>>])

\* A faulty variant: the en-passant capture clears the square ahead of the
\* destination.
make_w_move_takes_ahead(pos, m) ==
  LET moved == [pos EXCEPT !.w_board[m.piece] = Xor(@, m.from \cup m.destination),
                           !.w_all = Xor(@, m.from \cup m.destination)]
      captured == IF moved.b_all \cap m.destination # {}
                  THEN [moved EXCEPT !.b_all = @ \ m.destination,
                                     !.b_board = clear_square(moved.b_board, m.destination)]
                  ELSE moved
      special ==
        IF m.promotion # "Void"
        THEN LET cleared == [captured EXCEPT !.w_board[m.piece] = @ \ m.destination]
             IN [cleared EXCEPT !.w_board[m.promotion] = @ \cup m.destination]
        ELSE IF m.piece = "King" /\ Shr(m.from, 2) = m.destination
        THEN [captured EXCEPT
                !.w_board["Rook"] = Xor(@, Shr(m.destination, 1) \cup Shl(m.destination, 1)),
                !.w_all = Xor(@, Shr(m.destination, 1) \cup Shl(m.destination, 1))]
        ELSE IF m.piece = "King" /\ Shl(m.from, 2) = m.destination
        THEN [captured EXCEPT
                !.w_board["Rook"] = Xor(@, Shr(m.destination, 1) \cup Shl(m.destination, 2)),
                !.w_all = Xor(@, Shr(m.destination, 1) \cup Shl(m.destination, 2))]
        ELSE IF m.piece = "Pawn" /\ m.destination = captured.en_passent_target_square
        THEN [captured EXCEPT !.b_all = @ \ Shl(m.destination, 8),
                              !.b_board["Pawn"] = @ \ Shl(m.destination, 8)]
        ELSE captured
      target == IF m.piece = "Pawn" /\ Shl(m.from, 16) = m.destination
                THEN Shl(m.from, 8) ELSE {}
  IN calculate_legal_moves(
       [special EXCEPT !.en_passent_target_square = target,
                       !.w_turn = FALSE,
                       !.legal_moves = <<>>])

make_w_move(pos, m) ==
  LET moved == [pos EXCEPT !.w_board[m.piece] = Xor(@, m.from \cup m.destination),
                           !.w_all = Xor(@, m.from \cup m.destination)]
      captured == IF moved.b_all \cap m.destination # {}
                  THEN [moved EXCEPT !.b_all = @ \ m.destination,
                                     !.b_board = clear_square(moved.b_board, m.destination)]
                  ELSE moved
      special ==
        IF m.promotion # "Void"
        THEN LET cleared == [captured EXCEPT !.w_board[m.piece] = @ \ m.destination]
             IN [cleared EXCEPT !.w_board[m.promotion] = @ \cup m.destination]
        ELSE IF m.piece = "King" /\ Shr(m.from, 2) = m.destination
        THEN [captured EXCEPT
                !.w_board["Rook"] = Xor(@, Shr(m.destination, 1) \cup Shl(m.destination, 1)),
                !.w_all = Xor(@, Shr(m.destination, 1) \cup Shl(m.destination, 1))]
        ELSE IF m.piece = "King" /\ Shl(m.from, 2) = m.destination
        THEN [captured EXCEPT
                !.w_board["Rook"] = Xor(@, Shr(m.destination, 1) \cup Shl(m.destination, 2)),
                !.w_all = Xor(@, Shr(m.destination, 1) \cup Shl(m.destination, 2))]
        ELSE IF m.piece = "Pawn" /\ m.destination = captured.en_passent_target_square
        THEN [captured EXCEPT !.b_all = @ \ Shr(m.destination, 8),
                              !.b_board["Pawn"] = @ \ Shr(m.destination, 8)]
        ELSE captured
      target == IF m.piece = "Pawn" /\ Shl(m.from, 16) = m.destination
                THEN Shl(m.from, 8) ELSE {}
  IN calculate_legal_moves(
       [special EXCEPT !.en_passent_target_square = target,
                       !.w_turn = FALSE,
                       !.legal_moves = <<>>])

make_b_move(pos, m) ==
  LET moved == [pos EXCEPT !.b_board[m.piece] = Xor(@, m.from \cup m.destination),
                           !.b_all = Xor(@, m.from \cup m.destination)]
      captured == IF moved.w_all \cap m.destination # {}
                  THEN [moved EXCEPT !.w_all = @ \ m.destination,
                                     !.w_board = clear_square(moved.w_board, m.destination)]
                  ELSE moved
      special ==
        IF m.promotion # "Void"
        THEN LET cleared == [captured EXCEPT !.b_board[m.piece] = @ \ m.destination]
             IN [cleared EXCEPT !.b_board[m.promotion] = @ \cup m.destination]
        ELSE IF m.piece = "King" /\ Shr(m.from, 2) = m.destination
        THEN [captured EXCEPT
                !.w_board["Rook"] = Xor(@, Shr(m.destination, 1) \cup Shl(m.destination, 1)),
                !.w_all = Xor(@, Shr(m.destination, 1) \cup Shl(m.destination, 1))]
        ELSE IF m.piece = "King" /\ Shl(m.from, 2) = m.destination
        THEN [captured EXCEPT
                !.w_board["Rook"] = Xor(@, Shr(m.destination, 1) \cup Shl(m.destination, 2)),
                !.w_all = Xor(@, Shr(m.destination, 1) \cup Shl(m.destination, 2))]
        ELSE IF m.piece = "Pawn" /\ m.destination = captured.en_passent_target_square
        THEN [captured EXCEPT !.w_all = @ \ Shl(m.destination, 8),
                              !.w_board["Pawn"] = @ \ Shl(m.destination, 8)]
        ELSE captured
      target == IF m.piece = "Pawn" /\ Shr(m.from, 16) = m.destination
                THEN Shr(m.from, 8) ELSE {}
  IN calculate_legal_moves(
       [special EXCEPT !.en_passent_target_square = target,
                       !.w_turn = TRUE,
                       !.legal_moves = <<>>])

----------------------------------------------------------------------------
\* The surface: position strings, tokens, results.
\* A position string is the sequence of its characters; a move token is the
\* sequence of its slices m[..2], m[2..4] and, when not empty, m[4..].

DigitValue == [c \in {"1", "2", "3", "4", "5", "6", "7", "8", "9"} |->
                 CASE c = "1" -> 1 [] c = "2" -> 2 [] c = "3" -> 3 [] c = "4" -> 4
                   [] c = "5" -> 5 [] c = "6" -> 6 [] c = "7" -> 7 [] c = "8" -> 8
                   [] c = "9" -> 9]

\* The position of the first space (fen_string.chars().position(..).unwrap()).
separator(fen_string) ==
  CHOOSE i \in 1..Len(fen_string) :
    fen_string[i] = " " /\ \A j \in 1..(i - 1) : fen_string[j] # " "

\* The placement loop from byte i on, with the write pointer ptr.
RECURSIVE fen_board_loop(_, _, _, _)
fen_board_loop(position, fen_board, i, ptr) ==
  IF i > Len(fen_board) THEN position
  ELSE LET byte == fen_board[i]
       IN IF byte \in DOMAIN DigitValue
          THEN fen_board_loop(position, fen_board, i + 1, Shr(ptr, DigitValue[byte]))
          ELSE LET placed ==
                     CASE byte = "r" -> [position EXCEPT !.b_board["Rook"] = @ \cup ptr]
                       [] byte = "b" -> [position EXCEPT !.b_board["Bishop"] = @ \cup ptr]
                       [] byte = "n" -> [position EXCEPT !.b_board["Knight"] = @ \cup ptr]
                       [] byte = "q" -> [position EXCEPT !.b_board["Queen"] = @ \cup ptr]
                       [] byte = "k" -> [position EXCEPT !.b_board["King"] = @ \cup ptr]
                       [] byte = "p" -> [position EXCEPT !.b_board["Pawn"] = @ \cup ptr]
                       [] byte = "R" -> [position EXCEPT !.w_board["Rook"] = @ \cup ptr]
                       [] byte = "B" -> [position EXCEPT !.w_board["Bishop"] = @ \cup ptr]
                       [] byte = "N" -> [position EXCEPT !.w_board["Knight"] = @ \cup ptr]
                       [] byte = "Q" -> [position EXCEPT !.w_board["Queen"] = @ \cup ptr]
                       [] byte = "K" -> [position EXCEPT !.w_board["King"] = @ \cup ptr]
                       [] byte = "P" -> [position EXCEPT !.w_board["Pawn"] = @ \cup ptr]
                       [] OTHER -> position
               IN fen_board_loop(placed, fen_board, i + 1,
                                 IF byte # "/" THEN Shr(ptr, 1) ELSE ptr)

\* The flags loop: every byte after the board is looked at.
RECURSIVE fen_flags_loop(_, _, _)
fen_flags_loop(w_turn, flags, i) ==
  IF i > Len(flags) THEN w_turn
  ELSE fen_flags_loop(IF flags[i] = "w" THEN TRUE
                      ELSE IF flags[i] = "b" THEN FALSE
                      ELSE w_turn,
                      flags, i + 1)

\* A faulty variant: the aggregate loop stops before the last piece kind.
or_all_skip_last(board, i) ==
  UNION { board[PIECES[j]] : j \in i..(Len(PIECES) - 1) }

\* The aggregate loop of from_fen: for piece in PIECES, all |= board[piece].
RECURSIVE or_all(_, _)
or_all(board, i) ==
  IF i > Len(PIECES) THEN {} ELSE board[PIECES[i]] \cup or_all(board, i + 1)

from_fen(fen_string) ==
  LET sep == separator(fen_string)
      fen_board == SubSeq(fen_string, 1, sep - 1)
      flags == SubSeq(fen_string, sep, Len(fen_string))
      placed == fen_board_loop(empty, fen_board, 1, {63})
      position == [placed EXCEPT !.w_turn = fen_flags_loop(placed.w_turn, flags, 1),
                                 !.w_all = or_all(placed.w_board, 1),
                                 !.b_all = or_all(placed.b_board, 1)]
  IN calculate_legal_moves(position)

\* A faulty variant: a game is always in progress.
game_in_progress_always(pos) == TRUE

game_in_progress(pos) == Len(pos.legal_moves) # 0

\* A faulty variant: the winner named is the side to move.
get_result_wrong_winner(pos) ==
  LET blocker_board == pos.w_all \cup pos.b_all
  IN IF pos.w_turn
     THEN IF square_attacked_by_black(pos, blocker_board, trailing_zeros(pos.w_board["King"]))
          THEN "WhiteWin" ELSE "Draw"
     ELSE IF square_attacked_by_white(pos, blocker_board, trailing_zeros(pos.b_board["King"]))
          THEN "BlackWin" ELSE "Draw"

\* A faulty variant: no attack test, a side without moves has lost.
get_result_no_stalemate(pos) ==
  IF pos.w_turn THEN "BlackWin" ELSE "WhiteWin"

get_result(pos) ==
  LET blocker_board == pos.w_all \cup pos.b_all
  IN IF pos.w_turn
     THEN IF square_attacked_by_black(pos, blocker_board, trailing_zeros(pos.w_board["King"]))
          THEN "BlackWin" ELSE "Draw"
     ELSE IF square_attacked_by_white(pos, blocker_board, trailing_zeros(pos.b_board["King"]))
          THEN "WhiteWin" ELSE "Draw"

\* bitboard_square_to_name / name_to_bitboard_square: the maps both surface
\* functions build from SQUARE_NAME.
bitboard_square_to_name(bitboard_square) ==
  SQUARE_NAME[CHOOSE i \in 1..64 : {i - 1} = bitboard_square]

name_to_bitboard_square(square_name) ==
  {(CHOOSE i \in 1..64 : SQUARE_NAME[i] = square_name) - 1}

\* A faulty variant: the knight promotion written with the letter k.
move_token_knight_k(m) ==
  IF m.promotion = "Void"
  THEN << bitboard_square_to_name(m.from), bitboard_square_to_name(m.destination) >>
  ELSE << bitboard_square_to_name(m.from), bitboard_square_to_name(m.destination),
          CASE m.promotion = "Queen" -> "q"
            [] m.promotion = "Rook" -> "r"
            [] m.promotion = "Knight" -> "k"
            [] m.promotion = "Bishop" -> "b"
            [] OTHER -> "" >>

move_token(m) ==
  IF m.promotion = "Void"
  THEN << bitboard_square_to_name(m.from), bitboard_square_to_name(m.destination) >>
  ELSE << bitboard_square_to_name(m.from), bitboard_square_to_name(m.destination),
          CASE m.promotion = "Queen" -> "q"
            [] m.promotion = "Rook" -> "r"
            [] m.promotion = "Knight" -> "n"
            [] m.promotion = "Bishop" -> "b"
            [] OTHER -> "" >>

get_legal_moves(pos) == [i \in 1..Len(pos.legal_moves) |-> move_token(pos.legal_moves[i])]

\* get_square_legal_moves: of the tokens that start with the square's name,
\* what follows the name, m[2..].
get_square_legal_moves(pos, square) ==
  LET legal_moves == get_legal_moves(pos)
      from_square == SelectSeq(legal_moves, LAMBDA m : m[1] = square)
  IN [i \in 1..Len(from_square) |-> Tail(from_square[i])]

\* What the calls that borrow the position mutably leave in it.  The filters
\* copy it first (pos_clone = self.clone()) and write to the copy alone; the
\* two list functions read self.legal_moves and write to locals alone.
get_legal_moves_self(pos) == pos

get_square_legal_moves_self(pos, square) == get_legal_moves_self(pos)

\* A faulty variant: the tentative move is made on the position itself.
w_king_capture_filter_in_place(pos, m, king_pos) ==
  LET moved == [pos EXCEPT !.w_board[m.piece] = Xor(@, m.from \cup m.destination),
                           !.w_all = Xor(@, m.from \cup m.destination)]
  IN IF moved.b_all \cap m.destination # {}
     THEN [moved EXCEPT !.b_all = @ \ m.destination,
                        !.b_board = clear_square(moved.b_board, m.destination)]
     ELSE moved

w_king_capture_filter_self(pos, m, king_pos) == pos

b_king_capture_filter_self(pos, m, king_pos) == pos

\* A faulty variant: the move is handed to the routine of the side not to move.
make_move_other_side(pos, m) ==
  LET from == name_to_bitboard_square(m[1])
      destination == name_to_bitboard_square(m[2])
      promotion_piece == IF Len(m) > 2 THEN m[3] ELSE ""
      promotion == CASE promotion_piece = "q" -> "Queen"
                     [] promotion_piece = "r" -> "Rook"
                     [] promotion_piece = "b" -> "Bishop"
                     [] promotion_piece = "n" -> "Knight"
                     [] OTHER -> "Void"
      piece == IF pos.w_turn THEN get_w_piece(pos, from) ELSE get_b_piece(pos, from)
  IN IF ~pos.w_turn
     THEN make_w_move(pos, Move(from, destination, piece, promotion))
     ELSE make_b_move(pos, Move(from, destination, piece, promotion))

\* A faulty variant: the suffix of the token is not read.
make_move_ignores_suffix(pos, m) ==
  LET from == name_to_bitboard_square(m[1])
      destination == name_to_bitboard_square(m[2])
      piece == IF pos.w_turn THEN get_w_piece(pos, from) ELSE get_b_piece(pos, from)
  IN IF pos.w_turn
     THEN make_w_move(pos, Move(from, destination, piece, "Void"))
     ELSE make_b_move(pos, Move(from, destination, piece, "Void"))

make_move(pos, m) ==
  LET from == name_to_bitboard_square(m[1])
      destination == name_to_bitboard_square(m[2])
      promotion_piece == IF Len(m) > 2 THEN m[3] ELSE ""
      promotion == CASE promotion_piece = "q" -> "Queen"
                     [] promotion_piece = "r" -> "Rook"
                     [] promotion_piece = "b" -> "Bishop"
                     [] promotion_piece = "n" -> "Knight"
                     [] OTHER -> "Void"
      piece == IF pos.w_turn THEN get_w_piece(pos, from) ELSE get_b_piece(pos, from)
  IN IF pos.w_turn
     THEN make_w_move(pos, Move(from, destination, piece, promotion))
     ELSE make_b_move(pos, Move(from, destination, piece, promotion))

\* perft: the node count below pos to the given depth.
RECURSIVE seq_sum(_, _)
seq_sum(ns, i) == IF i > Len(ns) THEN 0 ELSE ns[i] + seq_sum(ns, i + 1)

RECURSIVE perft(_, _)
perft(pos, depth) ==
  IF depth = 1 THEN Len(pos.legal_moves)
  ELSE seq_sum([i \in 1..Len(pos.legal_moves) |->
                  perft(IF pos.w_turn THEN make_w_move(pos, pos.legal_moves[i])
                        ELSE make_b_move(pos, pos.legal_moves[i]), depth - 1)], 1)

----------------------------------------------------------------------------
\* The position strings the hosts of the model parse.

\* "rnbqkbnr/pppppppp/8/8/8/8/PPPPPPPP/RNBQKBNR w KQkq - 0 1": Position::startpos (lib.rs:62)
StartFen ==
  << "r", "n", "b", "q", "k", "b", "n", "r", "/", "p", "p", "p", "p", "p", "p", "p", "p", "/",
     "8", "/", "8", "/", "8", "/", "8", "/", "P", "P", "P", "P", "P", "P", "P", "P", "/", "R",
     "N", "B", "Q", "K", "B", "N", "R", " ", "w", " ", "K", "Q", "k", "q", " ", "-", " ", "0",
     " ", "1" >>

\* "8/2p5/3p4/KP5r/1R3p1k/8/4P1P1/8 w - - ": tests::perft2 (lib.rs:1120)
Perft2Fen ==
  << "8", "/", "2", "p", "5", "/", "3", "p", "4", "/", "K", "P", "5", "r", "/", "1", "R", "3",
     "p", "1", "k", "/", "8", "/", "4", "P", "1", "P", "1", "/", "8", " ", "w", " ", "-", " ",
     "-", " " >>

\* "1n6/P6k/8/8/8/8/p6K/1N6 w - - 0 1": pawns one step from promotion, with a capture available
PromotionFen ==
  << "1", "n", "6", "/", "P", "6", "k", "/", "8", "/", "8", "/", "8", "/", "8", "/", "p", "6",
     "K", "/", "1", "N", "6", " ", "w", " ", "-", " ", "-", " ", "0", " ", "1" >>

\* "5k2/5P2/4K3/8/8/8/8/8 w - - 0 1": king and pawn versus king: Ke6-f6 stalemates
StalemateFen ==
  << "5", "k", "2", "/", "5", "P", "2", "/", "4", "K", "3", "/", "8", "/", "8", "/", "8", "/",
     "8", "/", "8", " ", "w", " ", "-", " ", "-", " ", "0", " ", "1" >>

\* "7k/8/6K1/8/8/8/8/R7 w - - 0 1": Ra1-a8 mates
WhiteMatesFen ==
  << "7", "k", "/", "8", "/", "6", "K", "1", "/", "8", "/", "8", "/", "8", "/", "8", "/", "R",
     "7", " ", "w", " ", "-", " ", "-", " ", "0", " ", "1" >>

\* "r7/8/8/8/8/6k1/8/7K b - - 0 1": Ra8-a1 mates
BlackMatesFen ==
  << "r", "7", "/", "8", "/", "8", "/", "8", "/", "8", "/", "6", "k", "1", "/", "8", "/", "7",
     "K", " ", "b", " ", "-", " ", "-", " ", "0", " ", "1" >>

\* "4k3/2p5/8/1P1P4/8/8/8/4K3 b - - 0 1": c7-c5 can be answered by either en-passant capture
EnPassantFen ==
  << "4", "k", "3", "/", "2", "p", "5", "/", "8", "/", "1", "P", "1", "P", "4", "/", "8", "/",
     "8", "/", "8", "/", "4", "K", "3", " ", "b", " ", "-", " ", "-", " ", "0", " ", "1" >>

\* "4k3/8/8/1pP5/8/8/8/4K3 w - b6 0 2": white to move, en-passant target b6
FileBTargetFen ==
  << "4", "k", "3", "/", "8", "/", "8", "/", "1", "p", "P", "5", "/", "8", "/", "8", "/", "8",
     "/", "4", "K", "3", " ", "w", " ", "-", " ", "b", "6", " ", "0", " ", "2" >>

\* "4k3/8/8/1pP5/8/8/8/4K3 w - - 0 2": the same position without the target
FileBPlainFen ==
  << "4", "k", "3", "/", "8", "/", "8", "/", "1", "p", "P", "5", "/", "8", "/", "8", "/", "8",
     "/", "4", "K", "3", " ", "w", " ", "-", " ", "-", " ", "0", " ", "2" >>

\* "4k3/8/8/8/1Pp5/8/8/4K3 b - b3 0 1": black to move, en-passant target b3
FileBBlackFen ==
  << "4", "k", "3", "/", "8", "/", "8", "/", "8", "/", "1", "P", "p", "5", "/", "8", "/", "8",
     "/", "4", "K", "3", " ", "b", " ", "-", " ", "b", "3", " ", "0", " ", "1" >>

\* "r3k2r/8/8/8/8/8/8/R3K2R w KQkq - 0 1": both sides may castle, white to move
CastleWhiteFen ==
  << "r", "3", "k", "2", "r", "/", "8", "/", "8", "/", "8", "/", "8", "/", "8", "/", "8", "/",
     "R", "3", "K", "2", "R", " ", "w", " ", "K", "Q", "k", "q", " ", "-", " ", "0", " ", "1" >>

\* "r3k2r/8/8/8/8/8/8/R3K2R b KQkq - 0 1": both sides may castle, black to move
CastleBlackFen ==
  << "r", "3", "k", "2", "r", "/", "8", "/", "8", "/", "8", "/", "8", "/", "8", "/", "8", "/",
     "R", "3", "K", "2", "R", " ", "b", " ", "K", "Q", "k", "q", " ", "-", " ", "0", " ", "1" >>

\* tests::scolars_mate_from_startpos: the tokens the test plays from startpos.
ScholarsMate ==
  << <<"e2", "e4">>, <<"e7", "e5">>, <<"d1", "h4">>, <<"b8", "c6">>,
     <<"f1", "c4">>, <<"g8", "f6">>, <<"h4", "f7">> >>

\* A second game from startpos, every token of it in the list when played:
\* the queen checks on h5, is answered by g7g6, takes on g6 with check and is
\* taken by the h pawn.
QueenRaid ==
  << <<"e2", "e4">>, <<"f7", "f6">>, <<"d1", "h5">>, <<"g7", "g6">>,
     <<"h5", "g6">>, <<"h7", "g6">> >>

\* Free play goes MaxPly moves deep.
MaxPly == 2

\* A game is a position string and the tokens its host plays.  A host with no
\* tokens of its own takes every move from get_legal_moves, as make_move's
\* comment prescribes; a host with tokens plays them unchecked, as the test
\* does and as the comment allows for castling.
FreeFens ==
  { StartFen, Perft2Fen, PromotionFen, StalemateFen, WhiteMatesFen, BlackMatesFen,
    EnPassantFen, FileBTargetFen, FileBPlainFen, FileBBlackFen }

Games ==
  { [fen |-> f, tokens |-> <<>>] : f \in FreeFens }
  \cup { [fen |-> StartFen, tokens |-> t] : t \in { ScholarsMate, QueenRaid } }
  \cup { [fen |-> CastleWhiteFen, tokens |-> << t >>] : t \in { <<"e1", "g1">>, <<"e1", "c1">> } }
  \cup { [fen |-> CastleBlackFen, tokens |-> << t >>] : t \in { <<"e8", "g8">>, <<"e8", "c8">> } }

\* The positions perft is asked about, and the depths (tests::perft1, perft2).
PerftFens == { StartFen, Perft2Fen }
PerftDepths == 1..4

VARIABLES
  game,    \* the position string parsed and the host's own tokens
  pos,     \* the Position
  ply,     \* the number of make_move calls so far
  last,    \* the token of the last make_move, << >> before the first
  listed,  \* every token played so far was in get_legal_moves when played
  pf,      \* the top-level perft call: its depth, loop index, count and place
  rook_table,  \* ROOK_MAGIC_MASK and the threads that initialize and read it
  magic,   \* one slider square's magic search, its table and the last query
  answer   \* the last call the host made of the position, and what it returned

vars == << game, pos, ply, last, listed, pf, rook_table, magic, answer >>

Range(seq) == { seq[i] : i \in 1..Len(seq) }

PerftIdle == [pc |-> "idle", depth |-> 0, i |-> 0, count |-> 0]

\* The table state of a run in which a single thread has initialized the
\* table before any position exists, and the magic search is not looked into.
TableReady == [pc |-> << >>, number |-> "ready", lookup |-> "ready", completed |-> 1,
               reads |-> << >>, late_write |-> FALSE, torn_read |-> FALSE]
MagicIdle == [pc |-> "idle"]
\* No call has been made of the position since it was made or last moved on.
NoAnswer == [op |-> "none"]

Init ==
  /\ answer = NoAnswer
  /\ game \in Games
  /\ pos = from_fen(game.fen)
  /\ ply = 0
  /\ last = << >>
  /\ listed = TRUE
  /\ pf = PerftIdle
  /\ rook_table = TableReady
  /\ magic = MagicIdle

\* make_move with a token of get_legal_moves.
MakeListedMove ==
  /\ game.tokens = << >>
  /\ ply < MaxPly
  /\ \E i \in 1..Len(pos.legal_moves) :
       LET m == get_legal_moves(pos)[i]
       IN /\ pos' = make_move(pos, m)
          /\ last' = m
  /\ ply' = ply + 1
  /\ UNCHANGED << game, listed, pf, rook_table, magic, answer >>

\* make_move with the host's next token, whether listed or not.
PlayToken ==
  /\ ply < Len(game.tokens)
  /\ LET m == game.tokens[ply + 1]
     IN /\ pos' = make_move(pos, m)
        /\ last' = m
        /\ listed' = (listed /\ m \in Range(get_legal_moves(pos)))
  /\ ply' = ply + 1
  /\ UNCHANGED << game, pf, rook_table, magic, answer >>

Next == MakeListedMove \/ PlayToken

Spec == Init /\ [][Next]_vars

\* perft(pos, depth) as its caller sees it: the call, the loop over the root's
\* moves (one iteration a step, the recursive calls inside it whole), the return.
PerftInit ==
  /\ answer = NoAnswer
  /\ game \in { [fen |-> f, tokens |-> <<>>] : f \in PerftFens }
  /\ pos = from_fen(game.fen)
  /\ ply = 0
  /\ last = << >>
  /\ listed = TRUE
  /\ \E d \in PerftDepths : pf = [pc |-> "call", depth |-> d, i |-> 0, count |-> 0]
  /\ rook_table = TableReady
  /\ magic = MagicIdle

PerftLeaf ==
  /\ pf.pc = "call"
  /\ pf.depth = 1
  /\ pf' = [pf EXCEPT !.pc = "done", !.count = Len(pos.legal_moves)]
  /\ UNCHANGED << game, pos, ply, last, listed, rook_table, magic, answer >>

PerftEnter ==
  /\ pf.pc = "call"
  /\ pf.depth # 1
  /\ pf' = [pf EXCEPT !.pc = "loop", !.count = 0, !.i = 0]
  /\ UNCHANGED << game, pos, ply, last, listed, rook_table, magic, answer >>

PerftIter ==
  /\ pf.pc = "loop"
  /\ pf.i < Len(pos.legal_moves)
  /\ LET m == pos.legal_moves[pf.i + 1]
         pos_clone == IF pos.w_turn THEN make_w_move(pos, m) ELSE make_b_move(pos, m)
     IN pf' = [pf EXCEPT !.count = @ + perft(pos_clone, pf.depth - 1), !.i = @ + 1]
  /\ UNCHANGED << game, pos, ply, last, listed, rook_table, magic, answer >>

PerftReturn ==
  /\ pf.pc = "loop"
  /\ pf.i = Len(pos.legal_moves)
  /\ pf' = [pf EXCEPT !.pc = "done"]
  /\ UNCHANGED << game, pos, ply, last, listed, rook_table, magic, answer >>

PerftNext == PerftLeaf \/ PerftEnter \/ PerftIter \/ PerftReturn

PerftSpec == PerftInit /\ [][PerftNext]_vars

\* ROOK_MAGIC_MASK under the test threads.  Each test is a thread of the test
\* binary, and perft1, perft2 and perft3 each call init_rook_magic_mask and
\* then work on positions.  init_rook_magic_mask searches its magics into a local array and then
\* assigns the array to the static: the assignment is a copy that no lock
\* guards, so for the entry of one square the number is in place before the
\* lookup is.  Every move generation over a rook or queen reads the entry of
\* its square: the number, and the lookup slot the number leads to.
Tests == { "perft1", "perft2", "perft3" }

\* A thread reads the table at most MaxReads times.
MaxReads == 2

TableInit ==
  /\ answer = NoAnswer
  /\ game = [fen |-> << >>, tokens |-> << >>]
  /\ pos = empty
  /\ ply = 0
  /\ last = << >>
  /\ listed = TRUE
  /\ pf = PerftIdle
  /\ magic = MagicIdle
  /\ rook_table = [pc |-> [t \in Tests |-> "init"],
                   number |-> "zero", lookup |-> "zero", completed |-> 0,
                   reads |-> [t \in Tests |-> << >>],
                   late_write |-> FALSE, torn_read |-> FALSE]

\* The loop of init_rook_magic_mask: find_magic for every square, into mask.
FindMagics ==
  /\ \E t \in Tests :
       /\ rook_table.pc[t] = "init"
       /\ rook_table' = [rook_table EXCEPT !.pc[t] = "store"]
  /\ UNCHANGED << game, pos, ply, last, listed, pf, magic, answer >>

\* ROOK_MAGIC_MASK = mask, first half: the magic number of the entry.
StoreNumber ==
  /\ \E t \in Tests :
       /\ rook_table.pc[t] = "store"
       /\ rook_table' = [rook_table EXCEPT !.pc[t] = "storing",
                                          !.number = t,
                                          !.late_write = @ \/ rook_table.completed > 0]
  /\ UNCHANGED << game, pos, ply, last, listed, pf, magic, answer >>

\* ROOK_MAGIC_MASK = mask, second half: the lookup of the entry; the call returns.
StoreLookup ==
  /\ \E t \in Tests :
       /\ rook_table.pc[t] = "storing"
       /\ rook_table' = [rook_table EXCEPT !.pc[t] = "use",
                                          !.lookup = t,
                                          !.completed = @ + 1,
                                          !.late_write = @ \/ rook_table.completed > 0]
  /\ UNCHANGED << game, pos, ply, last, listed, pf, magic, answer >>

\* A position operation (add_w_rook_moves and the like) reads the entry.
ReadTable ==
  /\ \E t \in Tests :
       /\ rook_table.pc[t] = "use"
       /\ Len(rook_table.reads[t]) < MaxReads
       /\ rook_table' = [rook_table EXCEPT
            !.reads[t] = Append(@, << rook_table.number, rook_table.lookup >>),
            !.torn_read = @ \/ \E u \in Tests : rook_table.pc[u] = "storing"]
  /\ UNCHANGED << game, pos, ply, last, listed, pf, magic, answer >>

TableNext == FindMagics \/ StoreNumber \/ StoreLookup \/ ReadTable

TableSpec == TableInit /\ [][TableNext]_vars


\* find_magic for one slider and square in two runs of the program, each
\* with its own random candidates, and the queries made of the two tables.
\* The occupancies asked about are whole boards: any of the ends of the
\* slider's rays on the board edge, any of the squares next to the slider on
\* its rays, and, or not, the slider's own square with the knight's jumps
\* around it, which lie on none of its rays.
RayEnds(piece, square) ==
  move_mask(piece, square, {}) \ all_blockers_set(piece, square)

RayStarts(piece, square) ==
  move_mask(piece, square, {}) \cap KING_MASK[square]

Occupancies(piece, square) ==
  { ends \cup starts \cup others :
      ends \in SUBSET RayEnds(piece, square),
      starts \in SUBSET RayStarts(piece, square),
      others \in { {}, {square} \cup KNIGHT_MASK[square] } }

Runs == 1..2

\* find_magic gives up on no candidate of its own accord; MaxAttempts refused
\* candidates are followed here.
MaxAttempts == 1

MagicInit ==
  /\ answer = NoAnswer
  /\ game = [fen |-> << >>, tokens |-> << >>]
  /\ pos = empty
  /\ ply = 0
  /\ last = << >>
  /\ listed = TRUE
  /\ pf = PerftIdle
  /\ rook_table = TableReady
  /\ \E x \in Sliders :
       magic = [pc |-> "search", piece |-> x[1], square |-> x[2], run |-> 1, count |-> 0,
                magic_number |-> [r \in Runs |-> {}],
                magic_lookup |-> [r \in Runs |-> << >>],
                blocker_board |-> {},
                index |-> [r \in Runs |-> 0],
                attacks |-> [r \in Runs |-> {}]]

\* find_magic: the candidate is not magic, count += 1.
RefuseCandidate ==
  /\ magic.pc = "search"
  /\ magic.count < MaxAttempts
  /\ \E maybe_magic \in Candidates(magic.piece, magic.square) :
       /\ check_if_magic(magic.piece, magic.square, maybe_magic) = << >>
       /\ magic' = [magic EXCEPT !.count = @ + 1]
  /\ UNCHANGED << game, pos, ply, last, listed, pf, rook_table, answer >>

\* find_magic: the candidate is magic, (maybe_magic, lookup) is returned and
\* becomes the square's entry of the table of this run.
AcceptCandidate ==
  /\ magic.pc = "search"
  /\ \E maybe_magic \in Candidates(magic.piece, magic.square) :
       \E result \in { check_if_magic(magic.piece, magic.square, maybe_magic) } :
          /\ result # << >>
          /\ magic' = [magic EXCEPT !.pc = IF magic.run = 2 THEN "found" ELSE "search",
                                    !.run = 2,
                                    !.count = 0,
                                    !.magic_number[magic.run] = maybe_magic,
                                    !.magic_lookup[magic.run] = result[1]]
  /\ UNCHANGED << game, pos, ply, last, listed, pf, rook_table, answer >>

\* A move generator or attack test asks the entry about a board, in both runs.
Query ==
  /\ magic.pc = "found"
  /\ \E blocker_board \in Occupancies(magic.piece, magic.square) :
       magic' = [magic EXCEPT
         !.pc = "asked",
         !.blocker_board = blocker_board,
         !.index = [r \in Runs |->
                      magic_query_index(magic.piece, magic.square,
                                        magic.magic_number[r], blocker_board)],
         !.attacks = [r \in Runs |->
                        magic_query(magic.piece, magic.square, magic.magic_number[r],
                                    magic.magic_lookup[r], blocker_board)]]
  /\ UNCHANGED << game, pos, ply, last, listed, pf, rook_table, answer >>

\* The caller has used the answer; the entry stays as it is for the next query.
Answered ==
  /\ magic.pc = "asked"
  /\ magic' = [magic EXCEPT !.pc = "found", !.blocker_board = {},
                            !.index = [r \in Runs |-> 0],
                            !.attacks = [r \in Runs |-> {}]]
  /\ UNCHANGED << game, pos, ply, last, listed, pf, rook_table, answer >>

MagicNext == RefuseCandidate \/ AcceptCandidate \/ Query \/ Answered

MagicSpec == MagicInit /\ [][MagicNext]_vars



----------------------------------------------------------------------------
\* A host that, between its moves, calls the position's other functions: it
\* asks, takes the answer, and goes on.

\* The squares get_square_legal_moves is asked about, and the depths of perft.
QuerySquares == { "e2", "g8", "b5", "e1" }
QueryDepths == 1..2

\* pub fn game_in_progress(&self)
AskGameInProgress ==
  /\ answer = NoAnswer
  /\ answer' = [op |-> "game_in_progress", value |-> game_in_progress(pos)]
  /\ pos' = pos
  /\ UNCHANGED << game, ply, last, listed, pf, rook_table, magic >>

\* pub fn get_result(&self): the attack test is handed self.clone()
AskResult ==
  /\ answer = NoAnswer
  /\ answer' = [op |-> "get_result", value |-> get_result(pos)]
  /\ pos' = pos
  /\ UNCHANGED << game, ply, last, listed, pf, rook_table, magic >>

\* pub fn get_legal_moves(&mut self)
AskLegalMoves ==
  /\ answer = NoAnswer
  /\ answer' = [op |-> "get_legal_moves", value |-> get_legal_moves(pos)]
  /\ pos' = get_legal_moves_self(pos)
  /\ UNCHANGED << game, ply, last, listed, pf, rook_table, magic >>

\* pub fn get_square_legal_moves(&mut self, square: &str)
AskSquareLegalMoves ==
  /\ answer = NoAnswer
  /\ \E square \in QuerySquares :
       /\ answer' = [op |-> "get_square_legal_moves",
                     value |-> get_square_legal_moves(pos, square)]
       /\ pos' = get_square_legal_moves_self(pos, square)
  /\ UNCHANGED << game, ply, last, listed, pf, rook_table, magic >>

\* pub fn perft(pos: &Position, depth: u8): every move of the list is made on
\* a pos_clone of its own.  The depth stays within the plies the host plays.
AskPerft ==
  /\ answer = NoAnswer
  /\ \E depth \in QueryDepths :
       /\ ply + depth <= MaxPly + 1
       /\ answer' = [op |-> "perft", value |-> perft(pos, depth)]
  /\ pos' = pos
  /\ UNCHANGED << game, ply, last, listed, pf, rook_table, magic >>

\* One call of the king-safety filter, as calculate_legal_moves makes it for
\* each move its square loop has added to the list.
AskFilter ==
  /\ answer = NoAnswer
  /\ \E moves \in { pseudo_moves(pos, 0, pos.w_all \cup pos.b_all) } :
       \E i \in DOMAIN moves :
          IF pos.w_turn
          THEN /\ answer' = [op |-> "w_king_capture_filter",
                             value |-> w_king_capture_filter(pos, moves[i], loop_king_pos(pos))]
               /\ pos' = w_king_capture_filter_self(pos, moves[i], loop_king_pos(pos))
          ELSE /\ answer' = [op |-> "b_king_capture_filter",
                             value |-> b_king_capture_filter(pos, moves[i], loop_king_pos(pos))]
               /\ pos' = b_king_capture_filter_self(pos, moves[i], loop_king_pos(pos))
  /\ UNCHANGED << game, ply, last, listed, pf, rook_table, magic >>

\* The host has taken the answer.
Returned ==
  /\ answer # NoAnswer
  /\ answer' = NoAnswer
  /\ UNCHANGED << game, pos, ply, last, listed, pf, rook_table, magic >>

\* make_move, by either host, once no call is pending.
MoveOn == answer = NoAnswer /\ (MakeListedMove \/ PlayToken)

QueryNext ==
  \/ MoveOn
  \/ AskGameInProgress \/ AskResult \/ AskLegalMoves \/ AskSquareLegalMoves
  \/ AskPerft \/ AskFilter
  \/ Returned

QuerySpec == Init /\ [][QueryNext]_vars

----------------------------------------------------------------------------
\* The rules of chess on coordinates, against which the bitboard code is
\* checked.  Files are 0 (a) to 7 (h), ranks 0 (rank 1) to 7 (rank 8).

RefFile(s) == 7 - (s % 8)
RefRank(s) == s \div 8
RefSquare(f, r) == r * 8 + (7 - f)
RefAbs(n) == IF n < 0 THEN 0 - n ELSE n
RefSgn(n) == IF n < 0 THEN -1 ELSE IF n > 0 THEN 1 ELSE 0
RefMax(a, b) == IF a < b THEN b ELSE a
RefOther(color) == IF color = "w" THEN "b" ELSE "w"

\* The board a position shows: per color and kind, the squares of its pieces.
RefBoard(p) == [w |-> p.w_board, b |-> p.b_board]

RefSide(p) == IF p.w_turn THEN "w" ELSE "b"

RefPieces(bd, color) == UNION { bd[color][k] : k \in PieceKinds }
RefOccupied(bd) == RefPieces(bd, "w") \cup RefPieces(bd, "b")
RefKind(bd, color, s) == CHOOSE k \in PieceKinds : s \in bd[color][k]

\* No square of occ lies strictly between s and t (s and t on one line).
RefClear(occ, s, t) ==
  LET df == RefFile(t) - RefFile(s)
      dr == RefRank(t) - RefRank(s)
      n == RefMax(RefAbs(df), RefAbs(dr))
  IN \A k \in 1..(n - 1) :
       RefSquare(RefFile(s) + k * RefSgn(df), RefRank(s) + k * RefSgn(dr)) \notin occ

\* A piece of that color and kind on s attacks the square t.
RefAttacks(color, kind, s, t, occ) ==
  LET df == RefFile(t) - RefFile(s)
      dr == RefRank(t) - RefRank(s)
      diagonal == RefAbs(df) = RefAbs(dr) /\ df # 0
      straight == (df = 0) # (dr = 0)
  IN CASE kind = "Pawn" -> RefAbs(df) = 1 /\ dr = (IF color = "w" THEN 1 ELSE -1)
       [] kind = "Knight" -> {RefAbs(df), RefAbs(dr)} = {1, 2}
       [] kind = "King" -> RefMax(RefAbs(df), RefAbs(dr)) = 1
       [] kind = "Bishop" -> diagonal /\ RefClear(occ, s, t)
       [] kind = "Rook" -> straight /\ RefClear(occ, s, t)
       [] kind = "Queen" -> (diagonal \/ straight) /\ RefClear(occ, s, t)

RefAttacked(bd, t, color) ==
  LET occ == RefOccupied(bd)
  IN \E k \in PieceKinds : \E s \in bd[color][k] : RefAttacks(color, k, s, t, occ)

\* The squares the piece of that color and kind on s may move to, king safety
\* aside; ep is the en-passant target (a set of at most one square).
RefTargets(bd, color, kind, s, ep) ==
  LET own == RefPieces(bd, color)
      enemy == RefPieces(bd, RefOther(color))
      occ == own \cup enemy
      up == IF color = "w" THEN 1 ELSE -1
      home == IF color = "w" THEN 1 ELSE 6
  IN IF kind = "Pawn"
     THEN { t \in Squares :
              LET df == RefFile(t) - RefFile(s)
                  dr == RefRank(t) - RefRank(s)
              IN \/ df = 0 /\ dr = up /\ t \notin occ
                 \/ /\ df = 0 /\ dr = 2 * up /\ RefRank(s) = home
                    /\ t \notin occ
                    /\ RefSquare(RefFile(s), RefRank(s) + up) \notin occ
                 \/ /\ RefAbs(df) = 1 /\ dr = up
                    /\ t \in enemy \/ t \in ep }
     ELSE { t \in Squares \ own : RefAttacks(color, kind, s, t, occ) }

RefPseudoLegal(bd, color, ep) ==
  UNION { UNION { UNION { IF k = "Pawn" /\ RefRank(t) \in {0, 7}
                          THEN { Move({s}, {t}, "Pawn", q) : q \in {"Queen", "Rook", "Knight", "Bishop"} }
                          ELSE { Move({s}, {t}, k, "Void") }
                          : t \in RefTargets(bd, color, k, s, ep) }
                  : s \in bd[color][k] }
          : k \in PieceKinds }

\* The board after a move of that color: the piece leaves its square and
\* stands on the destination, promoted if the move says so; whatever stood
\* there is taken, and a pawn taken en passant leaves the square beside the
\* mover's origin.
RefAfter(bd, color, m, ep) ==
  LET s == CHOOSE x \in m.from : TRUE
      t == CHOOSE x \in m.destination : TRUE
      arrives == IF m.promotion # "Void" THEN m.promotion ELSE m.piece
      taken == IF m.piece = "Pawn" /\ m.destination = ep
               THEN {t, RefSquare(RefFile(t), RefRank(s))} ELSE {t}
      mine == [k \in PieceKinds |->
                 (bd[color][k] \ {s}) \cup (IF k = arrives THEN {t} ELSE {})]
      theirs == [k \in PieceKinds |-> bd[RefOther(color)][k] \ taken]
  IN IF color = "w" THEN [w |-> mine, b |-> theirs] ELSE [w |-> theirs, b |-> mine]

RefKingAttacked(bd, color) ==
  \E s \in bd[color]["King"] : RefAttacked(bd, s, RefOther(color))

RefLegalMoves(p) ==
  LET bd == RefBoard(p)
      color == RefSide(p)
      ep == p.en_passent_target_square
  IN { m \in RefPseudoLegal(bd, color, ep) :
         ~RefKingAttacked(RefAfter(bd, color, m, ep), color) }

RefInCheck(p) == RefKingAttacked(RefBoard(p), RefSide(p))

----------------------------------------------------------------------------
\* Claims

\* C1: after from_fen and after every make_move of a listed token, the cached
\* legal-move list holds exactly the pseudo-legal moves of the side to move
\* (no castling) that leave the mover's own king unattacked once applied.
C1_LegalMovesExact ==
  listed => Range(pos.legal_moves) = RefLegalMoves(pos)

\* C1 witness: a listed double push has just been made, and the reply list
\* leaves out an en-passant capture that is pseudo-legal, because taking would
\* open the line between a rook and the taker's own king.
C1_Witness ==
  /\ listed /\ ply >= 1
  /\ pos.en_passent_target_square # {}
  /\ pos.legal_moves # << >>
  /\ \E m \in RefPseudoLegal(RefBoard(pos), RefSide(pos), pos.en_passent_target_square) :
       /\ m.piece = "Pawn"
       /\ m.destination = pos.en_passent_target_square
       /\ m \notin Range(pos.legal_moves)

\* C2: perft of the starting position is 20, 400, 8902 and 197281 at depths
\* 1, 2, 3 and 4.
C2_PerftStart ==
  (pf.pc = "done" /\ game.fen = StartFen) => pf.count = << 20, 400, 8902, 197281 >>[pf.depth]

\* C2 witness: the depth 4 call on the starting position has returned.
C2_Witness ==
  pf.pc = "done" /\ game.fen = StartFen /\ pf.depth = 4 /\ pf.i = 20

\* C3: perft of "8/2p5/3p4/KP5r/1R3p1k/8/4P1P1/8 w - -" is 14, 191, 2812 and
\* 43238 at depths 1, 2, 3 and 4.
C3_PerftPins ==
  (pf.pc = "done" /\ game.fen = Perft2Fen) => pf.count = << 14, 191, 2812, 43238 >>[pf.depth]

\* C3 witness: the depth 4 call on that position has returned.
C3_Witness ==
  pf.pc = "done" /\ game.fen = Perft2Fen /\ pf.depth = 4 /\ pf.i = 14

\* A castling token for the side to move of p: its king, two squares along
\* its rank, with the rook of that side on the corner beyond.
CastlingKingside(p, m) ==
  LET from == trailing_zeros(name_to_bitboard_square(m[1]))
      destination == trailing_zeros(name_to_bitboard_square(m[2]))
      own == IF p.w_turn THEN p.w_board ELSE p.b_board
  IN /\ from \in own["King"] /\ destination = from - 2
     /\ RefRank(from) = RefRank(destination)
     /\ RefFile(from - 3) = 7 /\ (from - 3) \in own["Rook"]

CastlingQueenside(p, m) ==
  LET from == trailing_zeros(name_to_bitboard_square(m[1]))
      destination == trailing_zeros(name_to_bitboard_square(m[2]))
      own == IF p.w_turn THEN p.w_board ELSE p.b_board
  IN /\ from \in own["King"] /\ destination = from + 2
     /\ RefRank(from) = RefRank(destination)
     /\ RefFile(from + 4) = 0 /\ (from + 4) \in own["Rook"]

\* What the rook displacement of a castling make_move has to do: the mover's
\* rook leaves the corner for the square the king crossed, in the mover's rook
\* board and aggregate, and the other side's boards stay as they were.
CastlingDisplaces(p, q, m) ==
  LET from == trailing_zeros(name_to_bitboard_square(m[1]))
      kingside == CastlingKingside(p, m)
      corner == IF kingside THEN from - 3 ELSE from + 4
      crossed == IF kingside THEN from - 1 ELSE from + 1
      destination == IF kingside THEN from - 2 ELSE from + 2
      own == IF p.w_turn THEN p.w_board ELSE p.b_board
      own_after == IF p.w_turn THEN q.w_board ELSE q.b_board
      own_all == IF p.w_turn THEN p.w_all ELSE p.b_all
      own_all_after == IF p.w_turn THEN q.w_all ELSE q.b_all
      other == IF p.w_turn THEN p.b_board ELSE p.w_board
      other_after == IF p.w_turn THEN q.b_board ELSE q.w_board
      other_all == IF p.w_turn THEN p.b_all ELSE p.w_all
      other_all_after == IF p.w_turn THEN q.b_all ELSE q.w_all
  IN /\ own_after["Rook"] = (own["Rook"] \ {corner}) \cup {crossed}
     /\ own_all_after = (((own_all \ {from}) \cup {destination}) \ {corner}) \cup {crossed}
     /\ \A k \in PieceKinds : other_after[k] = other[k]
     /\ other_all_after = other_all

\* C4: a make_move of a castling token, by either side, moves the rook of the
\* moving side from its corner to the square the king crossed, in that side's
\* rook bitboard and aggregate, and leaves the other side's bitboards alone.
C4_CastlingMovesOwnRook ==
  [][ (ply' = ply + 1 /\ (CastlingKingside(pos, last') \/ CastlingQueenside(pos, last')))
        => CastlingDisplaces(pos, pos', last') ]_vars

\* Field 2 of a position string: the character after the first space.
FenField2(fen_string) == fen_string[separator(fen_string) + 1]

\* C5: the parsed side to move is white iff field 2 is w and black iff it is
\* b, whatever fields 3 to 6 hold.
C5_SideToMoveIsField2 ==
  ply = 0 => /\ pos.w_turn <=> FenField2(game.fen) = "w"
             /\ ~pos.w_turn <=> FenField2(game.fen) = "b"

\* C6: with an empty list and the king of the side to move attacked,
\* game_in_progress is false and get_result is the win of the side not to
\* move; and in the scholar's mate game game_in_progress is true before the
\* last token and false after it, where get_result is WhiteWin.
C6_Checkmate ==
  /\ (listed /\ Len(pos.legal_moves) = 0 /\ RefInCheck(pos))
       => /\ ~game_in_progress(pos)
          /\ get_result(pos) = (IF pos.w_turn THEN "BlackWin" ELSE "WhiteWin")
  /\ game.tokens = ScholarsMate
       => /\ ply < Len(ScholarsMate) => game_in_progress(pos)
          /\ ply = Len(ScholarsMate)
               => ~game_in_progress(pos) /\ get_result(pos) = "WhiteWin"

\* C6 witness: the scholar's mate game after its last token, black mated.
C6_Witness ==
  /\ game.tokens = ScholarsMate /\ ply = Len(ScholarsMate)
  /\ Len(pos.legal_moves) = 0 /\ RefInCheck(pos) /\ ~pos.w_turn

\* C7: with an empty list and the king of the side to move not attacked,
\* get_result is Draw.
C7_Stalemate ==
  (listed /\ Len(pos.legal_moves) = 0 /\ ~RefInCheck(pos)) => get_result(pos) = "Draw"

\* C7 witness: king and pawn against the lone king, stalemated by a listed move.
C7_Witness ==
  /\ listed /\ ply >= 1 /\ Len(pos.legal_moves) = 0 /\ ~RefInCheck(pos)
  /\ pos.b_all = pos.b_board["King"]
  /\ pos.w_all = pos.w_board["King"] \cup pos.w_board["Pawn"]
  /\ pos.w_board["Pawn"] # {}

Boards ==
  { << "w", k >> : k \in PieceKinds } \cup { << "b", k >> : k \in PieceKinds }

BoardOf(p, side_kind) ==
  IF side_kind[1] = "w" THEN p.w_board[side_kind[2]] ELSE p.b_board[side_kind[2]]

\* The squares standing on the board in the position the game was parsed from.
ParsedOccupancy == LET p == from_fen(game.fen) IN p.w_all \cup p.b_all

\* C8: the twelve piece bitboards are pairwise disjoint after parsing and
\* after every make_move of a listed token.
C8_BoardsDisjoint ==
  listed => \A x, y \in Boards : x # y => BoardOf(pos, x) \cap BoardOf(pos, y) = {}

\* C8 witness: listed moves have been made and a piece has been captured.
C8_Witness ==
  /\ listed /\ ply >= 1
  /\ Cardinality(pos.w_all \cup pos.b_all) < Cardinality(ParsedOccupancy)

\* C9: each side's aggregate is the OR of its six piece bitboards after
\* parsing and after every make_move of a listed token.
C9_AggregateIsUnion ==
  listed => /\ pos.w_all = UNION { pos.w_board[k] : k \in PieceKinds }
            /\ pos.b_all = UNION { pos.b_board[k] : k \in PieceKinds }

\* C9 witness: a listed en-passant capture has just been made: the pawn that
\* took stands on c6 and the pawn it took has left c5.
C9_Witness ==
  /\ listed /\ ply = 2 /\ game.fen = EnPassantFen
  /\ last[2] = "c6" /\ pos.b_board["Pawn"] = {}

\* C10: each king bitboard has exactly one bit in every position reached by
\* listed moves: no listed move captures a king.
C10_OneKingEach ==
  listed => /\ Cardinality(pos.w_board["King"]) = 1
            /\ Cardinality(pos.b_board["King"]) = 1

\* C10 witness: in a game of listed moves from the starting position the side
\* to move stands in check, and both kings are on the board.
C10_Witness ==
  /\ listed /\ game.fen = StartFen /\ ply >= 3 /\ RefInCheck(pos)
  /\ Cardinality(pos.w_board["King"]) = 1 /\ Cardinality(pos.b_board["King"]) = 1

\* C11: the en-passant target is 0 or a single bit, on rank 3 when black is
\* to move and on rank 6 when white is to move, after parsing and after every
\* make_move of a listed token.
C11_EnPassantTargetShape ==
  listed => \/ pos.en_passent_target_square = {}
            \/ /\ Cardinality(pos.en_passent_target_square) = 1
               /\ \A s \in pos.en_passent_target_square :
                    RefRank(s) = (IF pos.w_turn THEN 5 ELSE 2)

\* C11 witness: white has just made a listed double push, black is to move
\* and the target is a square of rank 3.
C11_Witness ==
  /\ listed /\ ply >= 1 /\ ~pos.w_turn
  /\ pos.en_passent_target_square # {}
  /\ \A s \in pos.en_passent_target_square : RefRank(s) = 2

\* The squares a token names.
TokenFrom(m) == trailing_zeros(name_to_bitboard_square(m[1]))
TokenDestination(m) == trailing_zeros(name_to_bitboard_square(m[2]))

\* The token moves a pawn of the side to move of p two squares along its file.
TwoSquarePawnPush(p, m) ==
  /\ TokenFrom(m) \in RefBoard(p)[RefSide(p)]["Pawn"]
  /\ RefFile(TokenFrom(m)) = RefFile(TokenDestination(m))
  /\ RefAbs(RefRank(TokenDestination(m)) - RefRank(TokenFrom(m))) = 2

\* The square between the two squares of a two-square push.
CrossedSquare(m) ==
  RefSquare(RefFile(TokenFrom(m)), (RefRank(TokenFrom(m)) + RefRank(TokenDestination(m))) \div 2)

\* A record of p's list that is an en-passant capture: a pawn leaves its
\* file for a square no piece stands on.
EnPassantCapture(p, m) ==
  /\ m.piece = "Pawn"
  /\ \A s \in m.from : \A t \in m.destination : RefFile(s) # RefFile(t)
  /\ m.destination \cap RefOccupied(RefBoard(p)) = {}

\* C12: after a make_move of a listed token the en-passant target is the
\* square the pawn crossed if the move was a two-square pawn push and 0 after
\* every other move, an en-passant capture included; so the list holds an
\* en-passant capture only right after a double push.
C12_EnPassantTargetLifetime ==
  [][ (ply' = ply + 1 /\ listed')
        => /\ pos'.en_passent_target_square =
                (IF TwoSquarePawnPush(pos, last') THEN {CrossedSquare(last')} ELSE {})
           /\ \A m \in Range(pos'.legal_moves) :
                EnPassantCapture(pos', m) => TwoSquarePawnPush(pos, last') ]_vars

\* C12 witness: black has just pushed c7-c5 past the white pawns, the target
\* is c6 and the list holds an en-passant capture onto it.
C12_Witness ==
  /\ listed /\ ply = 1 /\ game.fen = EnPassantFen /\ last = <<"c7", "c5">>
  /\ pos.en_passent_target_square = name_to_bitboard_square("c6")
  /\ \E m \in Range(pos.legal_moves) : EnPassantCapture(pos, m)


\* The places in a list of tokens of the moves from square name f to square name t.
TokenPlaces(tokens, f, t) ==
  { i \in 1..Len(tokens) : tokens[i][1] = f /\ tokens[i][2] = t }

\* The list of p, pair by pair: a pawn move onto rank 1 or 8 stands in it four
\* times, as records promoting to queen, rook, knight and bishop and as tokens
\* ending in q, r, n and b; any other move stands in it once, its record
\* without promotion and its token without a suffix.
PromotionExpansion(p) ==
  LET tokens == get_legal_moves(p)
  IN \A i \in 1..Len(tokens) :
       LET places == TokenPlaces(tokens, tokens[i][1], tokens[i][2])
           from == TokenFrom(tokens[i])
           destination == TokenDestination(tokens[i])
       IN IF from \in RefBoard(p)[RefSide(p)]["Pawn"] /\ RefRank(destination) \in {0, 7}
          THEN /\ Cardinality(places) = 4
               /\ { p.legal_moves[j].promotion : j \in places } = {"Queen", "Rook", "Knight", "Bishop"}
               /\ \A j \in places : Len(tokens[j]) = 3
               /\ { tokens[j][3] : j \in places } = {"q", "r", "n", "b"}
          ELSE /\ places = {i}
               /\ p.legal_moves[i].promotion = "Void"
               /\ Len(tokens[i]) = 2

\* The kind a promotion suffix stands for.
SuffixKind(c) ==
  CASE c = "q" -> "Queen" [] c = "r" -> "Rook" [] c = "n" -> "Knight" [] c = "b" -> "Bishop"

\* q is p after the promotion token m: the destination holds the promoted kind
\* of the side that moved, and no pawn.
PromotionApplied(p, q, m) ==
  LET destination == TokenDestination(m)
      mover == RefSide(p)
  IN /\ destination \in RefBoard(q)[mover][SuffixKind(m[3])]
     /\ destination \notin RefBoard(q)["w"]["Pawn"] \cup RefBoard(q)["b"]["Pawn"]

\* C13: a pawn move onto rank 1 or 8 is in the list as exactly four
\* records/tokens with the suffixes q, r, n and b, every other move exactly
\* once without a suffix; and after a make_move of a promotion token the
\* destination holds the promoted kind of the moving side and no pawn.
C13_PromotionFourWay ==
  /\ [](listed => PromotionExpansion(pos))
  /\ [][ (ply' = ply + 1 /\ listed' /\ Len(last') = 3)
           => PromotionApplied(pos, pos', last') ]_vars

\* C13 witness: the white pawn has taken on b8 and become a knight, and the
\* black pawn on a2 has its own promotions in the list.
C13_Witness ==
  /\ listed /\ ply = 1 /\ game.fen = PromotionFen /\ last = <<"a7", "b8", "n">>
  /\ pos.w_board["Knight"] = name_to_bitboard_square("b8") \cup name_to_bitboard_square("b1")
  /\ pos.w_board["Pawn"] = {}
  /\ \E i \in 1..Len(pos.legal_moves) : Len(get_legal_moves(pos)[i]) = 3

\* C14: after a make_move of a listed token the side to move is the opposite
\* of what it was before.
C14_TurnFlips ==
  [][ (ply' = ply + 1 /\ listed') => pos'.w_turn = ~pos.w_turn ]_vars

\* C14 witness: two listed moves from the starting position, white to move again.
C14_Witness ==
  /\ listed /\ ply = 2 /\ game.fen = StartFen /\ game.tokens = << >>
  /\ pos.w_turn /\ from_fen(game.fen).w_turn

\* C15: game_in_progress is true iff the legal-move list is not empty, which
\* for listed play is iff the side to move has a legal move; it is true for
\* the starting position.
C15_InProgressIffMoves ==
  /\ game_in_progress(pos) <=> pos.legal_moves # << >>
  /\ listed => (game_in_progress(pos) <=> RefLegalMoves(pos) # {})
  /\ game_in_progress(from_fen(StartFen))

\* C15 witness: listed play has reached a position without moves, and
\* game_in_progress is false there.
C15_Witness ==
  /\ listed /\ ply >= 1 /\ pos.legal_moves = << >> /\ ~game_in_progress(pos)

\* C16: the rook magic table is initialized exactly once and is read-only
\* thereafter: under any interleaving of the test threads no write to the
\* table happens after a first initialization has completed, and no position
\* operation reads the table while it is being written.
C16_TableInitializedOnce ==
  /\ rook_table.completed <= 1
  /\ ~rook_table.late_write
  /\ ~rook_table.torn_read

\* The squares a slider on s attacks on a board with the pieces occ: along
\* each of its rays up to the board edge or the first piece, that piece included.
RefSliderAttacks(kind, s, occ) ==
  { t \in Squares \ {s} : RefAttacks("w", kind, s, t, occ) }

C18_QueryIsRayWalk ==
  /\ magic.pc = "found" =>
       \A r \in Runs :
         \A blocker_subset \in SUBSET all_blockers_set(magic.piece, magic.square) :
            \E index \in { magic_query_index(magic.piece, magic.square,
                                             magic.magic_number[r], blocker_subset) } :
               /\ index \in DOMAIN magic.magic_lookup[r]
               /\ magic.magic_lookup[r][index]
                  = RefSliderAttacks(magic.piece, magic.square, blocker_subset)
  /\ magic.pc = "asked" =>
       \A r \in Runs :
         /\ magic.index[r] \in DOMAIN magic.magic_lookup[r]
         /\ magic.index[r] < 2 ^ (64 - magic_shift(magic.piece, magic.square))
         /\ magic.attacks[r]
            = RefSliderAttacks(magic.piece, magic.square, magic.blocker_board)
         /\ magic.attacks[r]
            = RefSliderAttacks(magic.piece, magic.square,
                               magic.blocker_board \ RayEnds(magic.piece, magic.square))

\* C18 witness: the bishop on e4 has been asked about a board with pieces on
\* edge squares outside its blocker mask, on squares inside it, and on squares
\* off its rays.
C18_Witness ==
  /\ magic.pc = "asked" /\ magic.piece = "Bishop" /\ magic.square = 27
  /\ magic.blocker_board \cap RayEnds("Bishop", 27) # {}
  /\ magic.blocker_board \cap all_blockers_set("Bishop", 27) # {}
  /\ magic.blocker_board \cap KNIGHT_MASK[27] # {}
  /\ magic.attacks[1] \cap RayEnds("Bishop", 27) # {}

\* The squares a piece of that color and kind reaches from s by its geometry
\* alone, on the board.
RefMaskSet(color, kind, s) ==
  { t \in Squares : RefAttacks(color, kind, s, t, {}) }

\* The files of the targets lie within n files of the file of s.
RefNoWrap(mask, s, n) ==
  \A t \in mask : RefAbs(RefFile(t) - RefFile(s)) <= n

\* C19: for every square the king, knight and pawn-capture masks are the
\* geometric sets (king: Chebyshev distance 1; knight: the (1,2) and (2,1)
\* offsets; pawn capture: one rank forward, one file aside) cut to the board,
\* no target wraps between file a and file h, a knight on a1 has 2 targets and
\* one on d4 has 8 (the tables are constants, looked at when a game starts);
\* and so it is for the square of every king, knight and pawn of the position
\* at hand.
C19_MasksAreGeometric ==
  /\ ply = 0 =>
       /\ \A square \in Squares :
            /\ KING_MASK[square] = RefMaskSet("w", "King", square)
            /\ KNIGHT_MASK[square] = RefMaskSet("w", "Knight", square)
            /\ W_PAWN_CAPTURE_MASK[square] = RefMaskSet("w", "Pawn", square)
            /\ B_PAWN_CAPTURE_MASK[square] = RefMaskSet("b", "Pawn", square)
            /\ RefNoWrap(KING_MASK[square], square, 1)
            /\ RefNoWrap(KNIGHT_MASK[square], square, 2)
            /\ RefNoWrap(W_PAWN_CAPTURE_MASK[square], square, 1)
            /\ RefNoWrap(B_PAWN_CAPTURE_MASK[square], square, 1)
       /\ Cardinality(KNIGHT_MASK[RefSquare(0, 0)]) = 2
       /\ Cardinality(KNIGHT_MASK[RefSquare(3, 3)]) = 8
  /\ \A square \in pos.w_board.Knight \cup pos.b_board.Knight :
       KNIGHT_MASK[square] = RefMaskSet("w", "Knight", square)
  /\ \A square \in pos.w_board.King \cup pos.b_board.King :
       KING_MASK[square] = RefMaskSet("w", "King", square)
  /\ \A square \in pos.w_board.Pawn :
       W_PAWN_CAPTURE_MASK[square] = RefMaskSet("w", "Pawn", square)
  /\ \A square \in pos.b_board.Pawn :
       B_PAWN_CAPTURE_MASK[square] = RefMaskSet("b", "Pawn", square)

\* C19 witness: listed play from the starting position has put a white knight
\* on the h file, where the mask has fewer than 8 targets, with pawns of both
\* colors on the a and h files.
C19_Witness ==
  /\ listed /\ ply >= 1 /\ game.fen = StartFen
  /\ \E square \in pos.w_board.Knight :
       RefFile(square) = 7 /\ Cardinality(KNIGHT_MASK[square]) = 4
  /\ \E square \in pos.w_board.Pawn : RefFile(square) = 0
  /\ \E square \in pos.b_board.Pawn : RefFile(square) = 7

\* The rank pawns of that color start on, and the square n ranks ahead of s.
RefStartingRank(color) == IF color = "w" THEN 1 ELSE 6
RefAhead(color, s, n) == IF color = "w" THEN s + 8 * n ELSE s - 8 * n

\* C20: a two-square pawn push is in the list only if the pawn stands on its
\* color's starting rank and the square one rank ahead and the square two
\* ranks ahead are both empty; a pawn on its starting rank with a piece on the
\* square directly ahead has no forward move in the list, every record of it
\* leaves its file.
C20_DoublePushNeedsFreePath ==
  LET color == RefSide(pos)
      occ == RefOccupied(RefBoard(pos))
  IN /\ \A i \in DOMAIN pos.legal_moves :
          LET m == pos.legal_moves[i]
              f == trailing_zeros(m.from)
          IN (m.piece = "Pawn" /\ m.destination = {RefAhead(color, f, 2)}) =>
               /\ RefRank(f) = RefStartingRank(color)
               /\ RefAhead(color, f, 1) \notin occ
               /\ RefAhead(color, f, 2) \notin occ
     /\ \A f \in RefBoard(pos)[color]["Pawn"] :
          (RefRank(f) = RefStartingRank(color) /\ RefAhead(color, f, 1) \in occ) =>
            \A i \in DOMAIN pos.legal_moves :
               pos.legal_moves[i].from = {f} =>
                 RefFile(trailing_zeros(pos.legal_moves[i].destination)) # RefFile(f)

\* C20 witness: a pawn of the side to move stands on its starting rank with a
\* piece directly ahead and a free square behind that piece, and has no move
\* in the list, while the two-square push of another pawn is in the list.
C20_Witness ==
  /\ listed /\ ply >= 1
  /\ \E f \in RefBoard(pos)[RefSide(pos)]["Pawn"] :
       /\ RefRank(f) = RefStartingRank(RefSide(pos))
       /\ RefAhead(RefSide(pos), f, 1) \in RefOccupied(RefBoard(pos))
       /\ RefAhead(RefSide(pos), f, 2) \notin RefOccupied(RefBoard(pos))
       /\ \A i \in DOMAIN pos.legal_moves : pos.legal_moves[i].from # {f}
  /\ \E i \in DOMAIN pos.legal_moves :
       /\ pos.legal_moves[i].piece = "Pawn"
       /\ pos.legal_moves[i].destination
          = {RefAhead(RefSide(pos), trailing_zeros(pos.legal_moves[i].from), 2)}

\* What a make_move of the token m, taking p to q, may do to the side that
\* did not move: a piece on the destination leaves its board and the
\* aggregate; else, for a pawn arriving on the en-passant target, the pawn one
\* rank behind the destination (ahead of it for a black mover) leaves the pawn
\* board and the aggregate; else nothing changes.
OpponentFrame(p, q, m) ==
  LET from == TokenFrom(m)
      destination == TokenDestination(m)
      own == IF p.w_turn THEN p.w_board ELSE p.b_board
      opp == IF p.w_turn THEN p.b_board ELSE p.w_board
      opp_after == IF p.w_turn THEN q.b_board ELSE q.w_board
      opp_all == IF p.w_turn THEN p.b_all ELSE p.w_all
      opp_all_after == IF p.w_turn THEN q.b_all ELSE q.w_all
      behind == IF p.w_turn THEN destination - 8 ELSE destination + 8
      Removes(square, kinds) ==
        /\ \E k \in kinds :
             /\ square \in opp[k]
             /\ opp_after[k] = opp[k] \ {square}
             /\ \A other \in PieceKinds \ {k} : opp_after[other] = opp[other]
        /\ opp_all_after = opp_all \ {square}
        /\ Cardinality(opp_all_after) = Cardinality(opp_all) - 1
  IN IF destination \in opp_all
     THEN Removes(destination, PieceKinds)
     ELSE IF from \in own["Pawn"] /\ p.en_passent_target_square = {destination}
     THEN Removes(behind, {"Pawn"})
     ELSE /\ \A k \in PieceKinds : opp_after[k] = opp[k]
          /\ opp_all_after = opp_all

\* C21: a make_move of a token of the legal-move list changes the bitboards
\* of the side that did not move in at most one square: the piece captured on
\* the destination, or the pawn captured en passant, leaves its piece board
\* and the aggregate, and otherwise those boards are unchanged.
C21_OpponentChangesInOneSquare ==
  [][ (ply' = ply + 1 /\ listed') => OpponentFrame(pos, pos', last') ]_vars

\* C21 witness: white has just taken en passant, b5 to c6: the black pawn has
\* left c5 and no piece ever stood on c6.
C21_Witness ==
  /\ listed /\ ply = 2 /\ game.fen = EnPassantFen
  /\ last = <<"b5", "c6">>
  /\ name_to_bitboard_square("c6") \subseteq pos.w_board["Pawn"]
  /\ name_to_bitboard_square("c5") \cap (pos.w_all \cup pos.b_all) = {}

\* The record make_move builds from a token before it hands it to make_w_move
\* or make_b_move: the squares of its two names, the piece of the side to move
\* on the first, and the kind its suffix names.
TokenRecord(p, m) ==
  Move(name_to_bitboard_square(m[1]), name_to_bitboard_square(m[2]),
       IF p.w_turn THEN get_w_piece(p, name_to_bitboard_square(m[1]))
       ELSE get_b_piece(p, name_to_bitboard_square(m[1])),
       LET promotion_piece == IF Len(m) > 2 THEN m[3] ELSE ""
       IN CASE promotion_piece = "q" -> "Queen"
            [] promotion_piece = "r" -> "Rook"
            [] promotion_piece = "b" -> "Bishop"
            [] promotion_piece = "n" -> "Knight"
            [] OTHER -> "Void")

\* The successor perft takes: the record applied as it is.
RecordApplied(p, m) ==
  IF p.w_turn THEN make_w_move(p, m) ELSE make_b_move(p, m)

\* C22: in every position reached by listed moves, records of the list that
\* differ have tokens that differ, and the record make_move builds from each
\* token of get_legal_moves is the record the token was written from; so a
\* make_move of the token gives the position that applying the record
\* directly gives, as perft does.
C22_TokenRoundTrip ==
  /\ [](listed =>
         /\ \A i, j \in DOMAIN pos.legal_moves :
              pos.legal_moves[i] # pos.legal_moves[j]
                => get_legal_moves(pos)[i] # get_legal_moves(pos)[j]
         /\ \A i \in DOMAIN pos.legal_moves :
              TokenRecord(pos, get_legal_moves(pos)[i]) = pos.legal_moves[i])
  /\ [][ (ply' = ply + 1 /\ listed') =>
           \A i \in DOMAIN pos.legal_moves :
              move_token(pos.legal_moves[i]) = last'
                => pos' = RecordApplied(pos, pos.legal_moves[i]) ]_vars

\* C22 witness: a token of the list with the suffix n has been played, and a
\* knight stands on its destination.
C22_Witness ==
  /\ listed /\ ply >= 1 /\ Len(last) = 3 /\ last[3] = "n"
  /\ \E side \in {"w", "b"} :
       name_to_bitboard_square(last[2]) \subseteq RefBoard(pos)[side]["Knight"]

\* The piece bitboards, aggregates, side to move and en-passant target.
PositionData(p) ==
  << p.w_board, p.b_board, p.w_all, p.b_all, p.w_turn, p.en_passent_target_square >>

====
